---- MODULE Spec2Model ----
(***************************************************************************)
(* Model of the urich request dispatch core: the exact-match Router, the   *)
(* core App (route registry, RPC method table, event subscriptions,        *)
(* callback slot) and the Application facade (handlers, middlewares,       *)
(* install-once callback).                                                 *)
(*                                                                         *)
(* Strings are sequences of characters (one-character TLA+ strings), so    *)
(* that trimming and upper-casing are computed character by character.     *)
(* Option<T> is a sequence of length 0 (None) or 1 (Some).                 *)
(* Result<T, CoreError> is a record with a boolean field ok.               *)
(***************************************************************************)
EXTENDS Integers, Sequences, FiniteSets

VARIABLES
    router,               \* App.router.table : (method, path) -> RouteId
    routes,               \* App.routes : RouteId -> Route
    next_route_id,        \* App.next_route_id
    callback,             \* App.callback : Option<RequestCallback>
    rpc_route_id,         \* App.rpc_route_id : Option<RouteId>
    rpc_methods,          \* App.rpc_methods : name -> (RouteId, Option<schema>)
    event_subscriptions,  \* App.event_subscriptions : event type -> Vec<RouteId>
    handlers,             \* Application.handlers : the RouteIds that have a handler
    callback_installed,   \* Application.callback_installed
    middlewares,          \* Application.middlewares : Vec<Middleware>
    external_callback,    \* Application.external_callback : Option<ExternalCallback>
    event_handlers,       \* Application.event_handlers : TypeId -> Vec<EventHandler>
    last,                 \* the last operation: its name, arguments, result and call trace
    ws,                   \* the WebSocket connections: socket, pump task, channels, application task
    server,               \* run_with_asgi: where it stands, what it has done, what it returned
    inflight              \* the RwLock around the App and the HTTP calls of UrichAsgi in flight

core_vars == <<router, routes, next_route_id, callback, rpc_route_id,
               rpc_methods, event_subscriptions>>
facade_vars == <<handlers, callback_installed, middlewares, external_callback,
                 event_handlers>>
vars == <<router, routes, next_route_id, callback, rpc_route_id, rpc_methods,
          event_subscriptions, handlers, callback_installed, middlewares,
          external_callback, event_handlers, last, ws, server, inflight>>

----------------------------------------------------------------------------
(* Bounds of the model. *)

MaxIds == 2
MaxRouteRegs == 2
MaxRpcIds == 2
MaxSubs == 3
MaxEventHandlers == 2
MaxMiddlewares == 2

----------------------------------------------------------------------------
(* Option and Result. *)

None == <<>>
Some(x) == <<x>>
IsSome(o) == Len(o) = 1
Unwrap(o) == o[1]

Ok(v) == [ok |-> TRUE, val |-> v]
Err(kind, msg) == [ok |-> FALSE, err |-> kind, msg |-> msg]

----------------------------------------------------------------------------
(* Strings: str::trim_start_matches('/'), str::trim_matches('/'),          *)
(* str::to_uppercase.                                                      *)

Slash == "/"

RECURSIVE TrimStartSlashes(_)
TrimStartSlashes(s) ==
    IF s # <<>> /\ Head(s) = Slash THEN TrimStartSlashes(Tail(s)) ELSE s

RECURSIVE TrimEndSlashes(_)
TrimEndSlashes(s) ==
    IF s # <<>> /\ s[Len(s)] = Slash
    THEN TrimEndSlashes(SubSeq(s, 1, Len(s) - 1))
    ELSE s

TrimSlashes(s) == TrimEndSlashes(TrimStartSlashes(s))

UpperChar(c) ==
    CASE c = "g" -> "G"
      [] c = "e" -> "E"
      [] c = "t" -> "T"
      [] c = "p" -> "P"
      [] c = "o" -> "O"
      [] c = "s" -> "S"
      [] OTHER -> c

ToUppercase(s) == [i \in 1..Len(s) |-> UpperChar(s[i])]

GET == <<"G", "E", "T">>
POST == <<"P", "O", "S", "T">>
EVENT == <<"E", "V", "E", "N", "T">>

----------------------------------------------------------------------------
(* Router (router.rs): exact match on (upper-cased method, path).          *)

RouteKey(method, path) == [method |-> method, path |-> path]

MapInsert(map, k, v) ==
    [x \in DOMAIN map \cup {k} |-> IF x = k THEN v ELSE map[x]]

MapGet(map, k) == IF k \in DOMAIN map THEN Some(map[k]) ELSE None

EmptyMap == [x \in {} |-> x]

RouterAddPath(path) == TrimStartSlashes(path)

RouterAdd(table, method, path, id) ==
    MapInsert(table, RouteKey(ToUppercase(method), RouterAddPath(path)), id)

\* Mutant: the lookup forgets the method.
MatchRoute_AnyMethod(table, method, path) ==
    LET hits == {k \in DOMAIN table : k.path = TrimSlashes(path)}
    IN  IF hits = {} THEN None ELSE Some(table[CHOOSE k \in hits : TRUE])

MatchRoute(table, method, path) ==
    MapGet(table, RouteKey(ToUppercase(method), TrimSlashes(path)))

----------------------------------------------------------------------------
(* Byte strings and JSON (serde_json).  A byte string is empty, is not     *)
(* JSON at all, or is the text of a JSON value; the flag compact says      *)
(* whether the text is exactly what serde_json::to_vec writes for that     *)
(* value (no insignificant whitespace, same key order and number form).    *)

JNull == [t |-> "null"]
JStr(s) == [t |-> "str", s |-> s]
JNum(n) == [t |-> "num", n |-> n]
JObj(fields) == [t |-> "obj", fields |-> fields]

EmptyBytes == [kind |-> "empty"]
Garbage == [kind |-> "garbage"]
Text(v, compact) == [kind |-> "json", value |-> v, compact |-> compact]

\* serde_json::from_slice
FromSlice(bytes) ==
    IF bytes.kind = "json" THEN Ok(bytes.value) ELSE Err("Json", "invalid JSON")

\* serde_json::to_vec
ToVec(v) == Text(v, TRUE)

\* Value::get(key)
JsonGet(v, key) ==
    IF v.t = "obj" /\ key \in DOMAIN v.fields THEN Some(v.fields[key]) ELSE None

\* Value::as_str
AsStr(v) == IF v.t = "str" THEN Some(v.s) ELSE None

\* schema.rs validate_json: parses the body, ignores the schema, returns the body.
ValidateJson(body, schema) ==
    LET parsed == FromSlice(body)
    IN  IF parsed.ok THEN Ok(body) ELSE parsed

----------------------------------------------------------------------------
(* Core types (lib.rs). *)

Route(id, method, path, schema, tag) ==
    [id |-> id, method |-> method, path |-> path,
     request_schema |-> schema, openapi_tag |-> tag]

RequestContext(method, path, body) ==
    [method |-> method, path |-> path, headers |-> <<>>, body |-> body]

Response(status, body) ==
    [status_code |-> status, body |-> body, content_type |-> None]

Event(ev, who, id, data) == [ev |-> ev, who |-> who, id |-> id, data |-> data]

NoCallbackSet == Err("Validation", "no callback set")

----------------------------------------------------------------------------
(* App::match_route_and_validate (lib.rs). *)

\* Mutant: the RPC route's own id is returned as the handler id.
RpcDispatch_RouteId(ctx) ==
    LET parsed == FromSlice(ctx.body)
        body_value == IF parsed.ok THEN parsed.val ELSE JNull
        method_field == JsonGet(body_value, "method")
        method_str == IF IsSome(method_field) THEN AsStr(Unwrap(method_field)) ELSE None
        method_name == IF IsSome(method_str) THEN Unwrap(method_str) ELSE ""
        params_field == JsonGet(body_value, "params")
        params == IF IsSome(params_field) THEN Unwrap(params_field) ELSE JNull
    IN  IF ~IsSome(MapGet(rpc_methods, method_name)) THEN Err("NotFound", "rpc method")
        ELSE Ok([handler_id |-> Unwrap(rpc_route_id), payload |-> ToVec(params)])

\* Mutant: an unknown method falls through to the route itself.
RpcDispatch_FallThrough(ctx) ==
    LET parsed == FromSlice(ctx.body)
        body_value == IF parsed.ok THEN parsed.val ELSE JNull
        method_field == JsonGet(body_value, "method")
        method_str == IF IsSome(method_field) THEN AsStr(Unwrap(method_field)) ELSE None
        method_name == IF IsSome(method_str) THEN Unwrap(method_str) ELSE ""
        entry == MapGet(rpc_methods, method_name)
        params_field == JsonGet(body_value, "params")
        params == IF IsSome(params_field) THEN Unwrap(params_field) ELSE JNull
    IN  IF ~IsSome(entry)
        THEN Ok([handler_id |-> Unwrap(rpc_route_id), payload |-> ctx.body])
        ELSE Ok([handler_id |-> Unwrap(entry).id, payload |-> ToVec(params)])

\* Mutant: a body that does not parse is refused with the parse error.
RpcDispatch_StrictDecode(ctx) ==
    LET parsed == FromSlice(ctx.body)
        body_value == IF parsed.ok THEN parsed.val ELSE JNull
        method_field == JsonGet(body_value, "method")
        method_str == IF IsSome(method_field) THEN AsStr(Unwrap(method_field)) ELSE None
        method_name == IF IsSome(method_str) THEN Unwrap(method_str) ELSE ""
        entry == MapGet(rpc_methods, method_name)
        params_field == JsonGet(body_value, "params")
        params == IF IsSome(params_field) THEN Unwrap(params_field) ELSE JNull
    IN  IF ~parsed.ok THEN parsed
        ELSE IF ~IsSome(entry) THEN Err("NotFound", "rpc method")
        ELSE Ok([handler_id |-> Unwrap(entry).id, payload |-> ToVec(params)])

RpcDispatch(ctx) ==
    LET parsed == FromSlice(ctx.body)
        body_value == IF parsed.ok THEN parsed.val ELSE JNull
        method_field == JsonGet(body_value, "method")
        method_str == IF IsSome(method_field) THEN AsStr(Unwrap(method_field)) ELSE None
        method_name == IF IsSome(method_str) THEN Unwrap(method_str) ELSE ""
        entry == MapGet(rpc_methods, method_name)
        params_field == JsonGet(body_value, "params")
        params == IF IsSome(params_field) THEN Unwrap(params_field) ELSE JNull
        params_bytes == ToVec(params)
        schema == Unwrap(entry).schema
        checked == IF IsSome(schema) THEN ValidateJson(params_bytes, Unwrap(schema))
                   ELSE Ok(params_bytes)
    IN  IF ~IsSome(entry) THEN Err("NotFound", "rpc method")
        ELSE IF ~checked.ok THEN checked
        ELSE Ok([handler_id |-> Unwrap(entry).id, payload |-> params_bytes])

PlainDispatch(route_id, ctx) ==
    LET route == MapGet(routes, route_id)
        schema == Unwrap(route).request_schema
        validated == IF IsSome(schema) THEN ValidateJson(ctx.body, Unwrap(schema))
                     ELSE Ok(ctx.body)
    IN  IF ~IsSome(route) THEN Err("NotFound", "route_id")
        ELSE IF ~validated.ok THEN validated
        ELSE Ok([handler_id |-> route_id, payload |-> validated.val])

\* Mutant: every route that add_rpc_route registered stays an RPC route.
IsRpcRoute_EverDesignated(route_id) ==
    /\ route_id \in DOMAIN routes
    /\ routes[route_id].openapi_tag = Some(<<"R", "P", "C">>)

IsRpcRoute(route_id) == rpc_route_id = Some(route_id)

MatchRouteAndValidate(ctx) ==
    LET matched == MatchRoute(router, ctx.method, ctx.path)
    IN  IF ~IsSome(matched) THEN Err("NotFound", "route")
        ELSE IF IsRpcRoute(Unwrap(matched)) THEN RpcDispatch(ctx)
        ELSE PlainDispatch(Unwrap(matched), ctx)

----------------------------------------------------------------------------
(* The callbacks.  A RequestCallback is either a function handed to        *)
(* App::set_callback by the user of the core (kind "fn"), or one of the    *)
(* two closures built by Application::install_callback, which own the      *)
(* middleware list and the external callback (kind "external"), resp. the  *)
(* handler map (kind "handlers"), that were moved into them.               *)
(* What a user function, a middleware or a handler answers is not decided  *)
(* by this code: it is an input of the step (orc).                         *)

FnCallback(tag) == [kind |-> "fn", tag |-> tag]
ExternalClosure(ext, mws) == [kind |-> "external", ext |-> ext, middlewares |-> mws]
HandlersClosure(hs, mws) == [kind |-> "handlers", handlers |-> hs, middlewares |-> mws]

HandlerOutcomes == {"ok", "NotFound", "Validation"}
MwOutcomes == {"none", "some"}

MwResponse(mw) == Response(401, Text(JStr(mw), TRUE))

\* The user-supplied callbacks that answer with a status and a content type
\* of their own.
TypedTags == {"txt"}
UserResponse(who, body) ==
    IF who \in TypedTags
    THEN [status_code |-> 201, body |-> body, content_type |-> Some("text/plain")]
    ELSE Response(200, body)

\* What a user-supplied callback (App::set_callback, set_external_callback) answers.
UserResult(who, outcome, body) ==
    IF outcome = "ok" THEN Ok(UserResponse(who, body)) ELSE Err(outcome, who)

\* Mutant: the first response is remembered and the remaining middlewares still run.
RECURSIVE RunMiddlewares_NoShortCircuit(_, _, _)
RunMiddlewares_NoShortCircuit(mws, outs, i) ==
    IF i > Len(mws) THEN [short |-> None, trace |-> <<>>]
    ELSE LET ev == Event("mw", mws[i], i, [out |-> outs[i]])
             rest == RunMiddlewares_NoShortCircuit(mws, outs, i + 1)
         IN  [short |-> IF outs[i] = "some" THEN Some(MwResponse(mws[i])) ELSE rest.short,
              trace |-> <<ev>> \o rest.trace]

\* for mw in middlewares.iter() { if let Some(resp) = mw(&ctx).await { return Ok(resp); } }
RECURSIVE RunMiddlewares(_, _, _)
RunMiddlewares(mws, outs, i) ==
    IF i > Len(mws) THEN [short |-> None, trace |-> <<>>]
    ELSE LET ev == Event("mw", mws[i], i, [out |-> outs[i]])
         IN  IF outs[i] = "some"
             THEN [short |-> Some(MwResponse(mws[i])), trace |-> <<ev>>]
             ELSE LET rest == RunMiddlewares(mws, outs, i + 1)
                  IN  [short |-> rest.short, trace |-> <<ev>> \o rest.trace]

\* application.rs 269: ext(route_id, &body, &ctx).await
ExternalBranch(cb, route_id, body, orc) ==
    [result |-> UserResult(cb.ext, orc.h, body),
     trace |-> <<Event("ext", cb.ext, route_id, body)>>]

\* Mutant: the handler is looked up in the Application's live map as well.
HandlersBranch_LiveHandlers(cb, route_id, body, orc) ==
    LET parsed == IF body.kind = "empty" THEN Ok(JNull) ELSE FromSlice(body)
    IN  IF ~parsed.ok THEN [result |-> Err("Validation", "invalid JSON"), trace |-> <<>>]
        ELSE IF route_id \notin cb.handlers \cup handlers
        THEN [result |-> Err("NotFound", "route_id"), trace |-> <<>>]
        ELSE [result |-> IF orc.h = "ok" THEN Ok(Response(200, ToVec(parsed.val)))
                         ELSE Err(orc.h, "handler"),
              trace |-> <<Event("handler", "handler", route_id, parsed.val)>>]

\* application.rs 289-303: parse the body, look the handler up, call it.
HandlersBranch(cb, route_id, body, orc) ==
    LET parsed == IF body.kind = "empty" THEN Ok(JNull) ELSE FromSlice(body)
    IN  IF ~parsed.ok THEN [result |-> Err("Validation", "invalid JSON"), trace |-> <<>>]
        ELSE IF route_id \notin cb.handlers
        THEN [result |-> Err("NotFound", "route_id"), trace |-> <<>>]
        ELSE [result |-> IF orc.h = "ok" THEN Ok(Response(200, ToVec(parsed.val)))
                         ELSE Err(orc.h, "handler"),
              trace |-> <<Event("handler", "handler", route_id, parsed.val)>>]

\* Mutant: the handler (or the external callback) runs before the middlewares.
InstalledCallback_HandlerFirst(cb, route_id, body, orc) ==
    LET m == RunMiddlewares(cb.middlewares, orc.mw, 1)
        rest == IF cb.kind = "external" THEN ExternalBranch(cb, route_id, body, orc)
                ELSE HandlersBranch(cb, route_id, body, orc)
    IN  IF IsSome(m.short) THEN [result |-> Ok(Unwrap(m.short)), trace |-> m.trace]
        ELSE [result |-> rest.result, trace |-> rest.trace \o m.trace]

\* Mutant: a middleware's response is reported as a failure of the call.
InstalledCallback_ShortCircuitFails(cb, route_id, body, orc) ==
    LET m == RunMiddlewares(cb.middlewares, orc.mw, 1)
        rest == IF cb.kind = "external" THEN ExternalBranch(cb, route_id, body, orc)
                ELSE HandlersBranch(cb, route_id, body, orc)
    IN  IF IsSome(m.short) THEN [result |-> Err("Validation", "rejected"), trace |-> m.trace]
        ELSE [result |-> rest.result, trace |-> m.trace \o rest.trace]

\* The closure installed by Application::install_callback.
InstalledCallback(cb, route_id, body, orc) ==
    LET m == RunMiddlewares(cb.middlewares, orc.mw, 1)
        rest == IF cb.kind = "external" THEN ExternalBranch(cb, route_id, body, orc)
                ELSE HandlersBranch(cb, route_id, body, orc)
    IN  IF IsSome(m.short) THEN [result |-> Ok(Unwrap(m.short)), trace |-> m.trace]
        ELSE [result |-> rest.result, trace |-> m.trace \o rest.trace]

\* The invocation of the callback, with the method and the path of the
\* RequestContext it (and every middleware inside it) is handed.
CallEvent(who, route_id, payload, ctx) ==
    [ev |-> "call", who |-> who, id |-> route_id, data |-> payload,
     method |-> ctx.method, path |-> ctx.path]

\* cb(handler_id, payload, ctx).await : the call, what runs inside it, the return.
InvokeCallback(cb, route_id, payload, ctx, orc) ==
    LET inner == IF cb.kind = "fn"
                 THEN [result |-> UserResult(cb.tag, orc.h, payload), trace |-> <<>>]
                 ELSE InstalledCallback(cb, route_id, payload, orc)
        who == IF cb.kind = "fn" THEN cb.tag ELSE cb.kind
    IN  [result |-> inner.result,
         trace |-> <<CallEvent(who, route_id, payload, ctx)>> \o inner.trace
                   \o <<Event("ret", who, route_id, inner.result)>>]

Oracles(cb) ==
    [mw : [1..(IF cb.kind = "fn" THEN 0 ELSE Len(cb.middlewares)) -> MwOutcomes],
     h : HandlerOutcomes]

----------------------------------------------------------------------------
(* App::handle_request and App::publish_event (lib.rs), as functions of    *)
(* the callback slot they read.                                            *)

\* Mutant: the callback slot is looked at before the route.
CoreHandleRequest_CallbackFirst(slot, ctx, orc) ==
    LET mv == MatchRouteAndValidate(ctx)
    IN  IF ~IsSome(slot) THEN [result |-> NoCallbackSet, trace |-> <<>>]
        ELSE IF ~mv.ok THEN [result |-> mv, trace |-> <<>>]
        ELSE InvokeCallback(Unwrap(slot), mv.val.handler_id, mv.val.payload, ctx, orc)

CoreHandleRequest(slot, ctx, orc) ==
    LET mv == MatchRouteAndValidate(ctx)
    IN  IF ~mv.ok THEN [result |-> mv, trace |-> <<>>]
        ELSE IF ~IsSome(slot) THEN [result |-> NoCallbackSet, trace |-> <<>>]
        ELSE InvokeCallback(Unwrap(slot), mv.val.handler_id, mv.val.payload, ctx, orc)

Unit == [unit |-> TRUE]

\* Mutant: a failed delivery is remembered and the loop goes on.
RECURSIVE Deliver_ContinueOnError(_, _, _, _, _, _)
Deliver_ContinueOnError(cb, ids, i, payload, ctx, orcs) ==
    IF i > Len(ids) THEN [result |-> Ok(Unit), trace |-> <<>>]
    ELSE LET r == InvokeCallback(cb, ids[i], payload, ctx, orcs[i])
             rest == Deliver_ContinueOnError(cb, ids, i + 1, payload, ctx, orcs)
         IN  [result |-> IF ~r.result.ok THEN r.result ELSE rest.result,
              trace |-> r.trace \o rest.trace]

\* for &handler_id in ids { cb(handler_id, payload, &ctx).await?; }
RECURSIVE Deliver(_, _, _, _, _, _)
Deliver(cb, ids, i, payload, ctx, orcs) ==
    IF i > Len(ids) THEN [result |-> Ok(Unit), trace |-> <<>>]
    ELSE LET r == InvokeCallback(cb, ids[i], payload, ctx, orcs[i])
         IN  IF ~r.result.ok THEN r
             ELSE LET rest == Deliver(cb, ids, i + 1, payload, ctx, orcs)
                  IN  [result |-> rest.result, trace |-> r.trace \o rest.trace]

Subscribers(event_type_id) ==
    IF event_type_id \in DOMAIN event_subscriptions
    THEN event_subscriptions[event_type_id] ELSE <<>>

\* Mutant: the subscribers are looked up before the callback slot, so an
\* event type nobody subscribed to is published without a callback.
CorePublishEvent_SubscribersFirst(event_type_id, payload, orcs) ==
    IF Subscribers(event_type_id) = <<>> THEN [result |-> Ok(Unit), trace |-> <<>>]
    ELSE IF ~IsSome(callback) THEN [result |-> NoCallbackSet, trace |-> <<>>]
    ELSE Deliver(Unwrap(callback), Subscribers(event_type_id), 1, payload,
                 RequestContext(EVENT, <<>>, payload), orcs)

CorePublishEvent(event_type_id, payload, orcs) ==
    IF ~IsSome(callback) THEN [result |-> NoCallbackSet, trace |-> <<>>]
    ELSE Deliver(Unwrap(callback), Subscribers(event_type_id), 1, payload,
                 RequestContext(EVENT, <<>>, payload), orcs)

----------------------------------------------------------------------------
(* The state after App::new() inside Application::new(). *)

NoOp == [op |-> "new", args |-> Unit, result |-> Ok(Unit), trace |-> <<>>]

Done(op, args, result, trace) ==
    [op |-> op, args |-> args, result |-> result, trace |-> trace]

\* The WebSocket connections the server may hold at one time.
Conns == {1, 2}

\* mpsc::channel(16) in asgi_websocket_upgrade, scaled down.
ChannelCapacity == 2

\* Frames the socket holds that the pump has not read yet.
MaxInFlight == 1

\* What an observer of one connection has seen so far: the frames the pump
\* read from the socket, the items the inbound channel accepted, the items
\* WsReceiveDriver::recv returned, the messages the outbound channel accepted
\* and the messages written to the socket. Nothing is recorded while on is
\* FALSE.
NoLog ==
    [on |-> FALSE, read |-> <<>>, fwd |-> <<>>, dlv |-> <<>>, snt |-> <<>>,
     wrt |-> <<>>]

\* A connection that has not been upgraded yet.
NoConnection ==
    [sock |-> "none", inq |-> <<>>, pc |-> "none", pending |-> "nothing",
     brk |-> FALSE, rxq |-> <<>>, txq |-> <<>>, app |-> "none",
     got |-> "nothing", errd |-> FALSE, log |-> NoLog]

\* asgi_websocket_upgrade, the spawned task: the handshake is over, the two
\* channels are created, the pump is spawned and the application is called.
NewConnection ==
    [sock |-> "open", inq |-> <<>>, pc |-> "select", pending |-> "nothing",
     brk |-> FALSE, rxq |-> <<>>, txq |-> <<>>, app |-> "running",
     got |-> "nothing", errd |-> FALSE, log |-> NoLog]

\* The tasks that may be inside the Http arm of UrichAsgi::call at one time.
Tasks == {1, 2}

\* A task that is not inside a call.
IdleCall ==
    [pc |-> "idle", req |-> <<>>, matched |-> <<>>, cb |-> <<>>, acquired |-> 0,
     result |-> <<>>]

\* Nobody holds the lock and no call is in flight.
NoCalls == [readers |-> {}, writer |-> FALSE, task |-> [t \in Tasks |-> IdleCall]]

\* App::run has not been called: the owner still holds the App and registers.
NotRunning == [pc |-> "registering", events |-> <<>>, result |-> None]

Init ==
    /\ router = EmptyMap
    /\ routes = EmptyMap
    /\ next_route_id = 0
    /\ callback = None
    /\ rpc_route_id = None
    /\ rpc_methods = EmptyMap
    /\ event_subscriptions = EmptyMap
    /\ handlers = {}
    /\ callback_installed = FALSE
    /\ middlewares = <<>>
    /\ external_callback = None
    /\ event_handlers = EmptyMap
    /\ last = NoOp
    /\ ws = [c \in Conns |-> NoConnection]
    /\ server = NotRunning
    /\ inflight = NoCalls

----------------------------------------------------------------------------
(* The registration methods of the core App (lib.rs), as updates of the    *)
(* core's fields.                                                          *)

\* next_route_id is a u32.  A u32 value v is held as the integer with the same
\* 32 bits in two's complement (v itself below 2^31, v - 2^32 from there on), so
\* that 0, 1, 2, ... are themselves and u32::MAX is -1.
I32_MAX == 2147483647
U32_MAX == -1

\* self.next_route_id += 1 in a build without overflow checks
WrappingInc(n) == IF n = I32_MAX THEN (0 - I32_MAX) - 1 ELSE n + 1

\* a < b on u32 values
U32Less(a, b) == IF (a >= 0) = (b >= 0) THEN a < b ELSE a >= 0

\* App::register_route
App_register_route(method, path, schema, tag) ==
    LET trimmed == TrimStartSlashes(path)
        id == next_route_id
    IN  /\ next_route_id' = WrappingInc(next_route_id)
        /\ router' = RouterAdd(router, method, trimmed, id)
        /\ routes' = MapInsert(routes, id, Route(id, method, trimmed, schema, tag))

CommandsSegment == <<"/", "c", "o", "m", "m", "a", "n", "d", "s", "/">>
QueriesSegment == <<"/", "q", "u", "e", "r", "i", "e", "s", "/">>

\* App::add_command
App_add_command(context, name, schema) ==
    App_register_route(POST, TrimSlashes(context) \o CommandsSegment \o name, schema,
                       Some(TrimSlashes(context)))

\* App::add_query
App_add_query(context, name, schema) ==
    App_register_route(GET, TrimSlashes(context) \o QueriesSegment \o name, schema,
                       Some(TrimSlashes(context)))

\* App::add_rpc_route
App_add_rpc_route(path) ==
    /\ App_register_route(POST, TrimSlashes(path), None, Some(<<"R", "P", "C">>))
    /\ rpc_route_id' = Some(next_route_id)

\* App::add_rpc_method
App_add_rpc_method(name, schema) ==
    /\ next_route_id' = WrappingInc(next_route_id)
    /\ rpc_methods' = MapInsert(rpc_methods, name, [id |-> next_route_id, schema |-> schema])

\* Mutant: the new subscriber is put in front of the list.
App_subscribe_event_Prepend(event_type_id) ==
    /\ next_route_id' = WrappingInc(next_route_id)
    /\ event_subscriptions' =
           MapInsert(event_subscriptions, event_type_id,
                     <<next_route_id>> \o (IF event_type_id \in DOMAIN event_subscriptions
                                          THEN event_subscriptions[event_type_id]
                                          ELSE <<>>))

\* App::subscribe_event
App_subscribe_event(event_type_id) ==
    /\ next_route_id' = WrappingInc(next_route_id)
    /\ event_subscriptions' =
           MapInsert(event_subscriptions, event_type_id,
                     Append(Subscribers(event_type_id), next_route_id))

\* Mutant: a callback already in the slot is kept.
App_set_callback_KeepFirst(cb) ==
    callback' = IF IsSome(callback) THEN callback ELSE Some(cb)

\* App::set_callback
App_set_callback(cb) == callback' = Some(cb)

----------------------------------------------------------------------------
(* Actions on the core App. *)

RegisterRoute(method, path, schema) ==
    /\ UNCHANGED <<ws, server, inflight>>
    /\ App_register_route(method, path, schema, None)
    /\ UNCHANGED <<callback, rpc_route_id, rpc_methods, event_subscriptions>>
    /\ UNCHANGED facade_vars
    /\ last' = Done("register_route", [method |-> method, path |-> path],
                    Ok([id |-> next_route_id]), <<>>)

AddCommand(context, name, schema) ==
    /\ UNCHANGED <<ws, server, inflight>>
    /\ App_add_command(context, name, schema)
    /\ UNCHANGED <<callback, rpc_route_id, rpc_methods, event_subscriptions>>
    /\ UNCHANGED facade_vars
    /\ last' = Done("add_command", [context |-> context, name |-> name],
                    Ok([id |-> next_route_id]), <<>>)

AddQuery(context, name, schema) ==
    /\ UNCHANGED <<ws, server, inflight>>
    /\ App_add_query(context, name, schema)
    /\ UNCHANGED <<callback, rpc_route_id, rpc_methods, event_subscriptions>>
    /\ UNCHANGED facade_vars
    /\ last' = Done("add_query", [context |-> context, name |-> name],
                    Ok([id |-> next_route_id]), <<>>)

AddRpcRoute(path) ==
    /\ UNCHANGED <<ws, server, inflight>>
    /\ App_add_rpc_route(path)
    /\ UNCHANGED <<callback, rpc_methods, event_subscriptions>>
    /\ UNCHANGED facade_vars
    /\ last' = Done("add_rpc_route", [path |-> path], Ok(Unit), <<>>)

\* Mutant: the method is entered in the Router table under its name as well.
AddRpcMethod_AsRoute(name, schema) ==
    /\ UNCHANGED <<ws, server, inflight>>
    /\ App_add_rpc_method(name, schema)
    /\ router' = RouterAdd(router, POST, <<name>>, next_route_id)
    /\ UNCHANGED <<routes, callback, rpc_route_id, event_subscriptions>>
    /\ UNCHANGED facade_vars
    /\ last' = Done("add_rpc_method", [name |-> name], Ok([id |-> next_route_id]), <<>>)

AddRpcMethod(name, schema) ==
    /\ UNCHANGED <<ws, server, inflight>>
    /\ App_add_rpc_method(name, schema)
    /\ UNCHANGED <<router, routes, callback, rpc_route_id, event_subscriptions>>
    /\ UNCHANGED facade_vars
    /\ last' = Done("add_rpc_method", [name |-> name], Ok([id |-> next_route_id]), <<>>)

\* add_rpc_method(name, schema) called again and again until the counter, which
\* each call increments, has reached target; the last call's id is returned.
AddRpcMethodRepeatedly(name, schema, target) ==
    /\ UNCHANGED <<ws, server, inflight>>
    /\ U32Less(next_route_id, target)
    /\ next_route_id' = target
    /\ rpc_methods' = MapInsert(rpc_methods, name, [id |-> target - 1, schema |-> schema])
    /\ UNCHANGED <<router, routes, callback, rpc_route_id, event_subscriptions>>
    /\ UNCHANGED facade_vars
    /\ last' = Done("add_rpc_method", [name |-> name], Ok([id |-> target - 1]), <<>>)

\* self.next_route_id += 1 at u32::MAX in a build with overflow checks: the
\* registration panics before it has stored anything.
Panicked == Err("panic", "attempt to add with overflow")

AllocationPanics(op) ==
    /\ UNCHANGED <<ws, server, inflight>>
    /\ next_route_id = U32_MAX
    /\ UNCHANGED core_vars
    /\ UNCHANGED facade_vars
    /\ last' = Done(op, Unit, Panicked, <<>>)

SubscribeEvent(event_type_id) ==
    /\ UNCHANGED <<ws, server, inflight>>
    /\ App_subscribe_event(event_type_id)
    /\ UNCHANGED <<router, routes, callback, rpc_route_id, rpc_methods>>
    /\ UNCHANGED facade_vars
    /\ last' = Done("subscribe_event", [event_type_id |-> event_type_id],
                    Ok([id |-> next_route_id]), <<>>)

SetCallback(tag) ==
    /\ UNCHANGED <<ws, server, inflight>>
    /\ App_set_callback(FnCallback(tag))
    /\ UNCHANGED <<router, routes, next_route_id, rpc_route_id, rpc_methods,
                   event_subscriptions>>
    /\ UNCHANGED facade_vars
    /\ last' = Done("set_callback", [tag |-> tag, replaced |-> callback], Ok(Unit), <<>>)

MatchAndValidate(ctx) ==
    /\ UNCHANGED <<ws, server, inflight>>
    /\ UNCHANGED core_vars
    /\ UNCHANGED facade_vars
    /\ last' = Done("match_route_and_validate", ctx, MatchRouteAndValidate(ctx), <<>>)

HandleRequest(ctx) ==
    /\ UNCHANGED <<ws, server, inflight>>
    /\ UNCHANGED core_vars
    /\ UNCHANGED facade_vars
    /\ \E orc \in (IF IsSome(callback) THEN Oracles(Unwrap(callback))
                   ELSE Oracles(FnCallback("none"))) :
         LET r == CoreHandleRequest(callback, ctx, orc)
         IN  last' = Done("handle_request", ctx, r.result, r.trace)

PublishEvent(event_type_id, payload) ==
    /\ UNCHANGED <<ws, server, inflight>>
    /\ UNCHANGED core_vars
    /\ UNCHANGED facade_vars
    /\ \E orcs \in [1..Len(Subscribers(event_type_id)) ->
                      IF IsSome(callback) THEN Oracles(Unwrap(callback))
                      ELSE Oracles(FnCallback("none"))] :
         LET r == CorePublishEvent(event_type_id, payload, orcs)
         IN  last' = Done("publish_event",
                          [event_type_id |-> event_type_id, payload |-> payload],
                          r.result, r.trace)

----------------------------------------------------------------------------
(* Application (application.rs; urich-rs core/app.rs is the same code      *)
(* without the external callback).                                         *)

\* Mutant: the callback_installed guard is missing.
InstallCallbackResult_NoGuard ==
    IF IsSome(external_callback)
    THEN [callback |-> Some(ExternalClosure(Unwrap(external_callback), middlewares)),
          callback_installed |-> TRUE, handlers |-> handlers,
          middlewares |-> <<>>, external_callback |-> None]
    ELSE [callback |-> Some(HandlersClosure(handlers, middlewares)),
          callback_installed |-> TRUE, handlers |-> {},
          middlewares |-> <<>>, external_callback |-> None]

\* Mutant: registered handlers take precedence over the external callback.
InstallCallbackResult_HandlersFirst ==
    IF callback_installed
    THEN [callback |-> callback, callback_installed |-> TRUE, handlers |-> handlers,
          middlewares |-> middlewares, external_callback |-> external_callback]
    ELSE IF IsSome(external_callback) /\ handlers = {}
    THEN [callback |-> Some(ExternalClosure(Unwrap(external_callback), middlewares)),
          callback_installed |-> TRUE, handlers |-> handlers,
          middlewares |-> <<>>, external_callback |-> None]
    ELSE [callback |-> Some(HandlersClosure(handlers, middlewares)),
          callback_installed |-> TRUE, handlers |-> {},
          middlewares |-> <<>>, external_callback |-> None]

\* Application::install_callback: the fields it leaves behind.
InstallCallbackResult ==
    IF callback_installed
    THEN [callback |-> callback, callback_installed |-> TRUE, handlers |-> handlers,
          middlewares |-> middlewares, external_callback |-> external_callback]
    ELSE IF IsSome(external_callback)
    THEN [callback |-> Some(ExternalClosure(Unwrap(external_callback), middlewares)),
          callback_installed |-> TRUE, handlers |-> handlers,
          middlewares |-> <<>>, external_callback |-> None]
    ELSE [callback |-> Some(HandlersClosure(handlers, middlewares)),
          callback_installed |-> TRUE, handlers |-> {},
          middlewares |-> <<>>, external_callback |-> None]

\* if !self.handlers.is_empty() || self.external_callback.is_some() { self.install_callback(); }
InstallIfNeeded ==
    IF handlers # {} \/ IsSome(external_callback)
    THEN InstallCallbackResult
    ELSE [callback |-> callback, callback_installed |-> callback_installed,
          handlers |-> handlers, middlewares |-> middlewares,
          external_callback |-> external_callback]

Application_set(f) ==
    /\ callback' = f.callback
    /\ callback_installed' = f.callback_installed
    /\ handlers' = f.handlers
    /\ middlewares' = f.middlewares
    /\ external_callback' = f.external_callback

\* Application::register_route (with its handler)
AppRegisterRoute(method, path, schema) ==
    /\ UNCHANGED <<ws, server, inflight>>
    /\ App_register_route(method, path, schema, None)
    /\ handlers' = handlers \cup {next_route_id}
    /\ UNCHANGED <<callback, rpc_route_id, rpc_methods, event_subscriptions>>
    /\ UNCHANGED <<callback_installed, middlewares, external_callback, event_handlers>>
    /\ last' = Done("app_register_route", [method |-> method, path |-> path],
                    Ok([id |-> next_route_id]), <<>>)

\* Application::add_middleware
AppAddMiddleware(mw) ==
    /\ UNCHANGED <<ws, server, inflight>>
    /\ middlewares' = Append(middlewares, mw)
    /\ UNCHANGED core_vars
    /\ UNCHANGED <<handlers, callback_installed, external_callback, event_handlers>>
    /\ last' = Done("add_middleware", [mw |-> mw], Ok(Unit), <<>>)

\* Application::set_external_callback
AppSetExternalCallback(ext) ==
    /\ UNCHANGED <<ws, server, inflight>>
    /\ external_callback' = Some(ext)
    /\ UNCHANGED core_vars
    /\ UNCHANGED <<handlers, callback_installed, middlewares, event_handlers>>
    /\ last' = Done("set_external_callback", [ext |-> ext], Ok(Unit), <<>>)

\* Application::install_callback
AppInstallCallback ==
    /\ UNCHANGED <<ws, server, inflight>>
    /\ Application_set(InstallCallbackResult)
    /\ UNCHANGED <<router, routes, next_route_id, rpc_route_id, rpc_methods,
                   event_subscriptions, event_handlers>>
    /\ last' = Done("install_callback", [was_installed |-> callback_installed],
                    Ok(Unit), <<>>)

\* Application::handle_request
AppHandleRequest(method, path, body) ==
    /\ UNCHANGED <<ws, server, inflight>>
    /\ LET after == InstallIfNeeded
           ctx == RequestContext(method, path, body)
       IN  /\ Application_set(after)
           /\ UNCHANGED <<router, routes, next_route_id, rpc_route_id, rpc_methods,
                          event_subscriptions, event_handlers>>
           /\ \E orc \in (IF IsSome(after.callback) THEN Oracles(Unwrap(after.callback))
                          ELSE Oracles(FnCallback("none"))) :
                LET r == CoreHandleRequest(after.callback, ctx, orc)
                IN  last' = Done("app_handle_request", ctx,
                                 IF r.result.ok THEN Ok(r.result.val.body) ELSE r.result,
                                 r.trace)

\* Application::subscribe_event (TypeId-keyed, in-process)
AppSubscribeEvent(type_id, handler) ==
    /\ UNCHANGED <<ws, server, inflight>>
    /\ event_handlers' =
           MapInsert(event_handlers, type_id,
                     Append(IF type_id \in DOMAIN event_handlers
                            THEN event_handlers[type_id] ELSE <<>>, handler))
    /\ UNCHANGED core_vars
    /\ UNCHANGED <<handlers, callback_installed, middlewares, external_callback>>
    /\ last' = Done("app_subscribe_event", [type_id |-> type_id, handler |-> handler],
                    Ok(Unit), <<>>)

\* for h in handlers { h(payload.clone())?; }
RECURSIVE CallEventHandlers(_, _, _, _)
CallEventHandlers(hs, i, payload, outs) ==
    IF i > Len(hs) THEN [result |-> Ok(Unit), trace |-> <<>>]
    ELSE LET r == IF outs[i] = "ok" THEN Ok(Unit) ELSE Err(outs[i], hs[i])
             evs == <<Event("call", hs[i], i, payload), Event("ret", hs[i], i, r)>>
         IN  IF ~r.ok THEN [result |-> r, trace |-> evs]
             ELSE LET rest == CallEventHandlers(hs, i + 1, payload, outs)
                  IN  [result |-> rest.result, trace |-> evs \o rest.trace]

\* Application::publish_event
AppPublishEvent(type_id, payload) ==
    /\ UNCHANGED <<ws, server, inflight>>
    /\ LET hs == IF type_id \in DOMAIN event_handlers THEN event_handlers[type_id] ELSE <<>>
       IN  /\ UNCHANGED core_vars
           /\ UNCHANGED facade_vars
           /\ \E outs \in [1..Len(hs) -> HandlerOutcomes] :
                LET r == CallEventHandlers(hs, 1, payload, outs)
                IN  last' = Done("app_publish_event",
                                 [type_id |-> type_id, payload |-> payload],
                                 r.result, r.trace)

----------------------------------------------------------------------------
(* Routing: registrations and requests over paths that differ in their     *)
(* leading and trailing slashes and methods that differ in letter case.    *)

get == <<"g", "e", "t">>
RouterMethods == {GET, get, POST}

PathCores == {<<"a">>}
Leads == {<<>>, <<"/">>}
Trails == {<<>>, <<"/">>}
SlashVariants(core) == {l \o core \o t : l \in Leads, t \in Trails}
RouterPaths == UNION {SlashVariants(core) : core \in PathCores} \cup {<<"b">>}

RouterBodies == {EmptyBytes}
RouterRequests ==
    {RequestContext(m, p, b) : m \in RouterMethods, p \in RouterPaths, b \in RouterBodies}

NextRouter ==
    \/ \E m \in RouterMethods, p \in RouterPaths :
         next_route_id < MaxRouteRegs /\ RegisterRoute(m, p, None)
    \/ SetCallback("f")
    \/ \E ctx \in RouterRequests : MatchAndValidate(ctx)
    \/ \E ctx \in RouterRequests : HandleRequest(ctx)

SpecRouter == Init /\ [][NextRouter]_vars

\* C1 (as claimed): after register_route(method, path) returned id,
\* match_route(method, path2) returns id for every path2 that differs from path
\* only in its leading and trailing slashes, whichever side carries them.
C1_MatchIgnoresSlashes ==
    last.op = "register_route" =>
        \A core \in PathCores :
            last.args.path \in SlashVariants(core) =>
                \A p2 \in SlashVariants(core) :
                    MatchRoute(router, last.args.method, p2) = Some(last.result.val.id)

\* The RouteIds the Router table holds.
TableIds == {router[k] : k \in DOMAIN router}

\* C21 (as claimed): the RouteIds stored in the Router table are exactly the
\* RouteIds of the Route entries of App.routes, whatever was registered.
C21_TableAndRoutesAgree == TableIds = DOMAIN routes

\* The keys the claim C2 calls registered: upper-cased method, slash-trimmed path.
RegisteredKeys ==
    {RouteKey(ToUppercase(routes[i].method), TrimSlashes(routes[i].path)) :
        i \in DOMAIN routes}

RequestKey(ctx) == RouteKey(ToUppercase(ctx.method), TrimSlashes(ctx.path))

IsRequestOp == last.op \in {"match_route_and_validate", "handle_request"}

\* C2: a request whose (upper-cased method, slash-trimmed path) was never
\* registered fails with NotFound in match_route_and_validate and in
\* handle_request, and no callback is invoked, with or without a callback set.
C2_UnregisteredIsNotFound ==
    (IsRequestOp /\ RequestKey(last.args) \notin RegisteredKeys) =>
        /\ ~last.result.ok
        /\ last.result.err = "NotFound"
        /\ last.trace = <<>>

\* A route is registered, a callback is set, and a request for the same path with
\* another method was answered.
C2_Witness ==
    /\ last.op = "handle_request"
    /\ IsSome(callback)
    /\ RequestKey(last.args) \notin RegisteredKeys
    /\ \E k \in RegisteredKeys : k.path = RequestKey(last.args).path

----------------------------------------------------------------------------
(* RPC: one designated route, methods dispatched by the body's "method".   *)
(* Method names, tags and event types are compared as wholes only, so they *)
(* are plain strings.                                                      *)

RpcPath == <<"r", "p", "c">>
PlainPath == <<"x">>
RpcPaths == {RpcPath, PlainPath}
RpcNames == {"get_foo", "add"}
Schema == [type |-> "object"]
Schemas == {None, Some(Schema)}

EmptyObject == JObj(EmptyMap)
Envelope(method, params) == JObj([method |-> method, params |-> params])
MethodOnly(method) == JObj([method |-> method])

RpcBodies ==
    { EmptyBytes, Garbage,
      Text(Envelope(JStr("get_foo"), EmptyObject), TRUE),
      Text(Envelope(JStr("get_foo"), JObj([a |-> JNum(1), b |-> JNum(2)])), FALSE),
      Text(MethodOnly(JStr("add")), TRUE),
      Text(Envelope(JStr("nope"), JNull), TRUE),
      Text(MethodOnly(JNum(1)), FALSE) }

RpcRequests == {RequestContext(POST, p, b) : p \in RpcPaths, b \in RpcBodies}

NextRpc ==
    \/ \E p \in RpcPaths : next_route_id < MaxRpcIds /\ AddRpcRoute(p)
    \/ \E s \in Schemas : next_route_id < MaxRpcIds /\ RegisterRoute(POST, PlainPath, s)
    \/ \E n \in RpcNames, s \in Schemas : next_route_id < MaxRpcIds /\ AddRpcMethod(n, s)
    \/ SetCallback("f")
    \/ \E ctx \in RpcRequests : MatchAndValidate(ctx)
    \/ \E ctx \in RpcRequests : HandleRequest(ctx)

SpecRpc == Init /\ [][NextRpc]_vars

\* The request of the last operation hit the designated RPC route.
HitsRpcRoute ==
    /\ IsRequestOp
    /\ IsSome(rpc_route_id)
    /\ MatchRoute(router, last.args.method, last.args.path) = rpc_route_id

\* The body of the last request is a JSON object whose "method" is a string.
NamesMethod ==
    /\ last.args.body.kind = "json"
    /\ last.args.body.value.t = "obj"
    /\ "method" \in DOMAIN last.args.body.value.fields
    /\ last.args.body.value.fields["method"].t = "str"

NamedMethod == last.args.body.value.fields["method"].s

\* The compact JSON text of the body's "params" (null when the field is absent).
ParamsText ==
    Text(IF "params" \in DOMAIN last.args.body.value.fields
         THEN last.args.body.value.fields["params"] ELSE JNull, TRUE)

CallEvents(trace) == {i \in 1..Len(trace) : trace[i].ev = "call"}

\* C3: a request on the RPC route naming a registered method m resolves to the id
\* add_rpc_method(m) returned (not the route's own id) and to the serialized
\* "params" (null when absent) as payload, and the callback is invoked once with
\* exactly that id and payload.
C3_RpcDispatchesToMethod ==
    /\ last.op = "add_rpc_method" =>
           rpc_methods[last.args.name].id = last.result.val.id
    /\ (HitsRpcRoute /\ NamesMethod /\ NamedMethod \in DOMAIN rpc_methods) =>
           LET id == rpc_methods[NamedMethod].id
           IN  /\ id # Unwrap(rpc_route_id)
               /\ last.op = "match_route_and_validate" =>
                      last.result = Ok([handler_id |-> id, payload |-> ParamsText])
               /\ (last.op = "handle_request" /\ IsSome(callback)) =>
                      /\ CallEvents(last.trace) = {1}
                      /\ last.trace[1].id = id
                      /\ last.trace[1].data = ParamsText

\* A registered method was called through the RPC route with a callback set, by a
\* body that is not the compact text of its value and that carries params.
C3_Witness ==
    /\ last.op = "handle_request"
    /\ HitsRpcRoute /\ NamesMethod /\ NamedMethod \in DOMAIN rpc_methods
    /\ IsSome(callback)
    /\ ~last.args.body.compact
    /\ "params" \in DOMAIN last.args.body.value.fields
    /\ last.trace # <<>>

\* C4: a request on the RPC route whose "method" names no registered RPC method
\* fails with NotFound, and the callback is not invoked.
C4_UnknownRpcMethodIsNotFound ==
    (HitsRpcRoute /\ NamesMethod /\ NamedMethod \notin DOMAIN rpc_methods) =>
        /\ ~last.result.ok
        /\ last.result.err = "NotFound"
        /\ last.trace = <<>>

\* An unknown method was requested while a callback was set and another method
\* was registered.
C4_Witness ==
    /\ last.op = "handle_request"
    /\ HitsRpcRoute /\ NamesMethod /\ NamedMethod \notin DOMAIN rpc_methods
    /\ IsSome(callback)
    /\ DOMAIN rpc_methods # {}

----------------------------------------------------------------------------
(* Events: subscriptions of the core App (string-keyed, delivered through  *)
(* the callback) and of the Application (TypeId-keyed, in-process).        *)

EventTypes == {"OrderCreated", "OrderPaid"}
EventPayloads == {Text(JObj([id |-> JStr("o1")]), TRUE), Garbage}
TypeIds == {"OrderCreated"}
EventHandlerTags == {"h1", "h2"}
EventValues == {JObj([id |-> JStr("o1")])}

EventHandlerCount ==
    IF "OrderCreated" \in DOMAIN event_handlers
    THEN Len(event_handlers["OrderCreated"]) ELSE 0

NextEvents ==
    \/ \E t \in EventTypes : next_route_id < MaxSubs /\ SubscribeEvent(t)
    \/ SetCallback("f")
    \/ \E t \in EventTypes, payload \in EventPayloads : PublishEvent(t, payload)
    \/ \E ty \in TypeIds, h \in EventHandlerTags :
         EventHandlerCount < MaxEventHandlers /\ AppSubscribeEvent(ty, h)
    \/ \E ty \in TypeIds, v \in EventValues : AppPublishEvent(ty, v)

SpecEvents == Init /\ [][NextEvents]_vars

CallSeq(trace) == SelectSeq(trace, LAMBDA e : e.ev = "call")

\* Between two invocations the earlier one has returned.
Sequential(trace) ==
    \A i \in 1..Len(trace), j \in 1..Len(trace) :
        (i < j /\ trace[i].ev = "call" /\ trace[j].ev = "call") =>
            \E k \in (i + 1)..(j - 1) : trace[k].ev = "ret" /\ trace[k].id = trace[i].id

C6_PublishStopsAtFirstError ==
    last.op \in {"publish_event", "app_publish_event"} =>
        \A i \in 1..Len(last.trace) :
            (last.trace[i].ev = "ret" /\ ~last.trace[i].data.ok) =>
                /\ last.result = last.trace[i].data
                /\ i = Len(last.trace)

\* The first of at least two subscribers failed.
C6_Witness ==
    /\ last.op = "publish_event"
    /\ ~last.result.ok
    /\ IsSome(callback)
    /\ Len(CallSeq(last.trace)) = 1
    /\ Len(Subscribers(last.args.event_type_id)) >= 2

----------------------------------------------------------------------------
(* The Application as its users drive it: routes with and without a        *)
(* handler, middlewares, an external callback, installation, requests.     *)
(* Every middleware closure is moved into the Application, so a given      *)
(* middleware is added once.                                               *)

MwTags == {"auth", "log"}
ExtTags == {"py"}
FacadeBodies == {EmptyBytes, Garbage, Text(EmptyObject, FALSE)}

Range(seq) == {seq[i] : i \in 1..Len(seq)}

InstalledMiddlewares ==
    IF IsSome(callback) /\ Unwrap(callback).kind # "fn"
    THEN Unwrap(callback).middlewares ELSE <<>>

Next ==
    \/ next_route_id < MaxIds /\ AppRegisterRoute(POST, PlainPath, None)
    \/ next_route_id < MaxIds /\ RegisterRoute(POST, PlainPath, None)
    \/ \E mw \in MwTags :
         /\ Len(middlewares) < MaxMiddlewares
         /\ mw \notin Range(middlewares) \cup Range(InstalledMiddlewares)
         /\ AppAddMiddleware(mw)
    \/ \E ext \in ExtTags : AppSetExternalCallback(ext)
    \/ AppInstallCallback
    \/ \E b \in FacadeBodies : AppHandleRequest(POST, PlainPath, b)

Spec == Init /\ [][Next]_vars

IsAppRequest == last.op = "app_handle_request"
ReachedCallback == IsAppRequest /\ last.trace # <<>>
MwSeq(trace) == SelectSeq(trace, LAMBDA e : e.ev = "mw")
MwEvents(trace) == {i \in 1..Len(trace) : trace[i].ev = "mw"}
HandlerEvents(trace) == {i \in 1..Len(trace) : trace[i].ev \in {"handler", "ext"}}
AllNone(trace, mws) ==
    /\ Len(MwSeq(trace)) = Len(mws)
    /\ \A k \in 1..Len(mws) : MwSeq(trace)[k].data.out = "none"
\* The id and the payload the callback was called with.
CalledId == last.trace[1].id
CalledPayload == last.trace[1].data
HasHandler(cb, id) == cb.kind = "external" \/ id \in cb.handlers
ParsesAsJson(bytes) == bytes.kind = "empty" \/ FromSlice(bytes).ok

\* C7: in the installed callback, when the i-th registered middleware returns
\* Some(response), that response is the result of the request, and nothing else
\* is invoked for the request afterwards: no middleware i+1..n, no route handler,
\* no external callback; the callback returns right after it.
C7_MiddlewareShortCircuits ==
    ReachedCallback =>
        \A i \in 1..Len(last.trace) :
            (last.trace[i].ev = "mw" /\ last.trace[i].data.out = "some") =>
                LET e == last.trace[i]
                    resp == MwResponse(e.who)
                IN  /\ e.who = Unwrap(callback).middlewares[e.id]
                    /\ last.result = Ok(resp.body)
                    /\ \A j \in (i + 1)..Len(last.trace) :
                           /\ last.trace[j].ev = "ret"
                           /\ last.trace[j].data = Ok(resp)

\* Two middlewares and a handler for the route; the first middleware answers.
C7_Witness ==
    /\ ReachedCallback
    /\ Len(Unwrap(callback).middlewares) = 2
    /\ Unwrap(callback).kind = "handlers"
    /\ CalledId \in Unwrap(callback).handlers
    /\ ParsesAsJson(CalledPayload)
    /\ \E i \in MwEvents(last.trace) :
           last.trace[i].id = 1 /\ last.trace[i].data.out = "some"

\* Middlewares are kept in the order of the add_middleware calls, the installed
\* callback captures that list, and a request invokes them in that order, each
\* one only after the previous one returned None.
MiddlewareOrderStep ==
    /\ last'.op = "add_middleware" => middlewares' = Append(middlewares, last'.args.mw)
    /\ (~callback_installed /\ callback_installed') =>
           Unwrap(callback').middlewares = middlewares
    /\ ReachedCallback' =>
           LET ms == MwSeq(last'.trace)
               mws == Unwrap(callback').middlewares
           IN  /\ Len(ms) <= Len(mws)
               /\ \A k \in 1..Len(ms) :
                      /\ ms[k].id = k
                      /\ ms[k].who = mws[k]
                      /\ k > 1 => ms[k - 1].data.out = "none"

\* Exactly one invocation of the handler (or of the external callback), after
\* every middleware invocation.
HandlerOnceAfterMiddlewares(trace) ==
    /\ Cardinality(HandlerEvents(trace)) = 1
    /\ \A h \in HandlerEvents(trace), m \in MwEvents(trace) : m < h

\* C8, as stated: on every request that reaches the installed callback the
\* middlewares run in add_middleware order, each after the previous one returned
\* None, and when all of them return None the resolved handler is invoked exactly
\* once, after the last middleware.  Fails: the handlers branch parses the body
\* between the last middleware and the handler, and a non-empty body that is
\* not JSON ends the request with a Validation error before any handler runs.
C8_HandlerAlwaysInvoked ==
    [][ /\ MiddlewareOrderStep
        /\ (/\ ReachedCallback'
            /\ HasHandler(Unwrap(callback'), last'.trace[1].id)
            /\ AllNone(last'.trace, Unwrap(callback').middlewares))
           => HandlerOnceAfterMiddlewares(last'.trace) ]_vars

\* C8, amended: the middleware order as above; when all middlewares return
\* None, the external callback is invoked exactly once after the last
\* middleware, and the route's handler is invoked exactly once after the last
\* middleware provided the payload is empty or parses as JSON; otherwise (or
\* when no handler is registered for the id) nothing is invoked and the request
\* fails with Validation (resp. NotFound).
C8_MiddlewareOrderThenHandler ==
    [][ /\ MiddlewareOrderStep
        /\ (ReachedCallback' /\ AllNone(last'.trace, Unwrap(callback').middlewares)) =>
               LET cb == Unwrap(callback')
                   payload == last'.trace[1].data
                   id == last'.trace[1].id
               IN  IF cb.kind = "external"
                   THEN HandlerOnceAfterMiddlewares(last'.trace)
                   ELSE IF ~ParsesAsJson(payload)
                   THEN /\ HandlerEvents(last'.trace) = {}
                        /\ ~last'.result.ok /\ last'.result.err = "Validation"
                   ELSE IF id \notin cb.handlers
                   THEN /\ HandlerEvents(last'.trace) = {}
                        /\ ~last'.result.ok /\ last'.result.err = "NotFound"
                   ELSE HandlerOnceAfterMiddlewares(last'.trace) ]_vars

\* Two middlewares, added as "log" then "auth", both return None, and the
\* route's handler runs.
C8_Witness ==
    /\ ReachedCallback
    /\ Unwrap(callback).kind = "handlers"
    /\ Unwrap(callback).middlewares = <<"log", "auth">>
    /\ AllNone(last.trace, Unwrap(callback).middlewares)
    /\ HandlerEvents(last.trace) # {}

AtMostOncePerRequest ==
    IsAppRequest =>
        /\ \A i \in MwEvents(last.trace), j \in MwEvents(last.trace) :
               last.trace[i].who = last.trace[j].who => i = j
        /\ Cardinality(HandlerEvents(last.trace)) <= 1
        /\ Cardinality(CallEvents(last.trace)) <= 1

\* C9: install_callback is idempotent.  A call made when the callback is already
\* installed, directly or from inside handle_request, changes nothing in the
\* core App or in the Application, and every request invokes each middleware at
\* most once and its handler (or the external callback) at most once.
C9_InstallIsIdempotent ==
    [][ /\ (last'.op = "install_callback" /\ callback_installed) =>
               UNCHANGED <<core_vars, facade_vars>>
        /\ (last'.op = "app_handle_request" /\ callback_installed) =>
               UNCHANGED <<core_vars, facade_vars>>
        /\ AtMostOncePerRequest' ]_vars

\* A second install_callback call that had new handlers and middlewares at hand.
C9_Witness ==
    /\ last.op = "install_callback"
    /\ last.args.was_installed
    /\ handlers # {}
    /\ middlewares # <<>>

----------------------------------------------------------------------------
(* The callback slot.  An App is driven either directly (set_callback by   *)
(* its owner, as in tests/handle_request.rs) or through the Application    *)
(* that wraps it, whose install_callback is then the only caller of        *)
(* set_callback (Application.core is pub(crate)).                          *)

SlotTags == {"f", "g"}
SlotBodies == {EmptyBytes, Text(EmptyObject, FALSE)}

Standalone ==
    /\ ~callback_installed
    /\ handlers = {}
    /\ middlewares = <<>>
    /\ ~IsSome(external_callback)

Wrapped == IF IsSome(callback) THEN Unwrap(callback).kind # "fn" ELSE TRUE

NothingPending == handlers = {} /\ ~IsSome(external_callback)

NextSlot ==
    \/ \E tag \in SlotTags : Standalone /\ SetCallback(tag)
    \/ next_route_id < MaxIds /\ RegisterRoute(POST, PlainPath, None)
    \/ next_route_id < MaxIds /\ SubscribeEvent("OrderCreated")
    \/ Wrapped /\ next_route_id < MaxIds /\ AppRegisterRoute(POST, PlainPath, None)
    \/ Wrapped /\ AppInstallCallback
    \/ \E b \in SlotBodies : Wrapped /\ AppHandleRequest(POST, PlainPath, b)
    \/ \E b \in SlotBodies :
         NothingPending /\ HandleRequest(RequestContext(POST, PlainPath, b))
    \/ \E b \in SlotBodies : NothingPending /\ PublishEvent("OrderCreated", b)

SpecSlot == Init /\ [][NextSlot]_vars

SlotName(cb) == IF cb.kind = "fn" THEN cb.tag ELSE cb.kind
IsDispatchOp(op) == op \in {"handle_request", "publish_event", "app_handle_request"}
IsInstallOp(op) == op \in {"install_callback", "app_handle_request"}

\* C10, as stated: once the slot holds a function, nothing replaces it (every
\* later install attempt, a further App.set_callback call included, is a no-op).
\* Fails: App::set_callback assigns the slot unconditionally.
C10_FirstInstallWins ==
    [][IsSome(callback) => callback' = callback]_vars

\* C10, amended: the slot starts empty, changes only in an install
\* (App.set_callback, Application.install_callback directly or from
\* handle_request) and is never emptied; an Application.install_callback after
\* the first leaves the slot alone, whereas App.set_callback always puts its
\* argument in the slot, replacing what was there; every request and every event
\* delivery calls the function that is in the slot at that time.
C10_SlotHoldsLastSetCallback ==
    /\ ~IsSome(callback)
    /\ [][ /\ IsSome(callback) => IsSome(callback')
           /\ callback' # callback =>
                  last'.op = "set_callback" \/ IsInstallOp(last'.op)
           /\ (IsInstallOp(last'.op) /\ callback_installed) => callback' = callback
           /\ last'.op = "set_callback" =>
                  callback' = Some(FnCallback(last'.args.tag))
           /\ IsDispatchOp(last'.op) =>
                  \A i \in CallEvents(last'.trace) :
                      /\ IsSome(callback')
                      /\ last'.trace[i].who = SlotName(Unwrap(callback')) ]_vars

\* set_callback has just replaced a different function that was in the slot.
C10_Witness ==
    /\ last.op = "set_callback"
    /\ IsSome(last.args.replaced)
    /\ last.args.replaced # callback
    /\ routes # EmptyMap

----------------------------------------------------------------------------
\* C11: once install_callback has run, what the installed callback can reach is
\* frozen.  The callback in the slot is never replaced; a handler registered
\* after installation (it sits in the Application's handlers map, which the
\* installation emptied) and a middleware added after installation (it sits in
\* the Application's middlewares list) is not invoked by any later request: the
\* handlers and middlewares invoked are the ones the callback captured.
C11_InstalledSetIsFrozen ==
    [][ /\ callback_installed => callback' = callback
        /\ (ReachedCallback' /\ callback_installed) =>
               \A i \in 1..Len(last'.trace) :
                   LET e == last'.trace[i]
                   IN  /\ e.ev = "mw" => e.who \notin Range(middlewares')
                       /\ e.ev = "mw" => e.who \in Range(Unwrap(callback).middlewares)
                       /\ e.ev = "handler" => e.id \notin handlers'
                       /\ e.ev = "handler" => e.id \in Unwrap(callback).handlers ]_vars

\* A request after installation resolves to a route whose handler was
\* registered after installation, while a middleware added after installation
\* is waiting too; an earlier middleware and no late one has run.
C11_Witness ==
    /\ ReachedCallback
    /\ Unwrap(callback).kind = "handlers"
    /\ Unwrap(callback).middlewares # <<>>
    /\ CalledId \in handlers
    /\ middlewares # <<>>
    /\ ParsesAsJson(CalledPayload)
    /\ AllNone(last.trace, Unwrap(callback).middlewares)
    /\ last.result = Err("NotFound", "route_id")

----------------------------------------------------------------------------
(* UrichAsgi (asgi.rs): call(scope, receive, send).  The receive and send  *)
(* endpoints are trait objects handed in by the server; what a recv or a   *)
(* send answers is the endpoint's choice, so a call takes the answer of    *)
(* the receive and the answers of the sends as inputs.                     *)

HttpScope(method, path) == [kind |-> "http", method |-> method, path |-> path]
WsScope(path) == [kind |-> "websocket", path |-> path]
LifespanScope(event) == [kind |-> "lifespan", event |-> event]

HttpRequest(body) == [type |-> "http.request", body |-> body]
LifespanStartup == [type |-> "lifespan.startup"]
LifespanShutdown == [type |-> "lifespan.shutdown"]

\* headers: vec![("Content-Type".into(), content_type)]
HttpResponseStart(status, content_type) ==
    [type |-> "http.response.start", status |-> status,
     headers |-> <<<<"Content-Type", content_type>>>>]
\* The value of the first header of that name, if any.
HeaderValue(headers, name) ==
    LET hits == SelectSeq(headers, LAMBDA h : h[1] = name)
    IN  IF hits = <<>> THEN None ELSE Some(hits[1][2])
HttpResponseBody(body, more) ==
    [type |-> "http.response.body", body |-> body, more |-> more]
LifespanStartupComplete == [type |-> "lifespan.startup.complete"]
LifespanShutdownComplete == [type |-> "lifespan.shutdown.complete"]
WsClose(code) == [type |-> "websocket.close", code |-> code]

OpenapiPath == <<"o", "p", "e", "n", "a", "p", "i", ".", "j", "s", "o", "n">>
DocsPath == <<"d", "o", "c", "s">>
SWAGGER_UI_HTML == [kind |-> "html"]

LowerChar(c) ==
    CASE c = "G" -> "g"
      [] c = "E" -> "e"
      [] c = "T" -> "t"
      [] c = "P" -> "p"
      [] c = "O" -> "o"
      [] c = "S" -> "s"
      [] OTHER -> c

ToLowercase(str) == [i \in 1..Len(str) |-> LowerChar(str[i])]

\* App::openapi_spec: one entry per route, keyed by "/" + path.
OpenapiSpec ==
    [t |-> "openapi",
     paths |-> {[path |-> <<Slash>> \o TrimStartSlashes(routes[id].path),
                 method |-> ToLowercase(routes[id].method)] : id \in DOMAIN routes}]

SendFailed == Err("Validation", "send failed")

\* Mutant: the result of a send is dropped and the next message is sent anyway.
RECURSIVE SendAll_IgnoreErrors(_, _, _)
SendAll_IgnoreErrors(msgs, snds, k) ==
    IF k > Len(msgs) THEN [result |-> Ok(Unit), trace |-> <<>>]
    ELSE LET ev == Event("send", "send", k, [msg |-> msgs[k], sent |-> snds[k]])
             rest == SendAll_IgnoreErrors(msgs, snds, k + 1)
         IN  [result |-> IF snds[k] = "err" THEN SendFailed ELSE rest.result,
              trace |-> <<ev>> \o rest.trace]

\* send.send(m).await? for each message in turn.
RECURSIVE SendAll(_, _, _)
SendAll(msgs, snds, k) ==
    IF k > Len(msgs) THEN [result |-> Ok(Unit), trace |-> <<>>]
    ELSE LET ev == Event("send", "send", k, [msg |-> msgs[k], sent |-> snds[k]])
         IN  IF snds[k] = "err" THEN [result |-> SendFailed, trace |-> <<ev>>]
             ELSE LET rest == SendAll(msgs, snds, k + 1)
                  IN  [result |-> rest.result, trace |-> <<ev>> \o rest.trace]

RecvEvent(rcv) == Event("recv", "receive", 0, [rcv |-> rcv])

\* Mutant: the acknowledgement is sent before the event is received.
LifespanCall_SendFirst(scope, rcv, snds) ==
    LET s == SendAll(<<IF scope.event = "startup" THEN LifespanStartupComplete
                       ELSE LifespanShutdownComplete>>, snds, 1)
    IN  IF ~s.result.ok THEN s
        ELSE [result |-> IF rcv.ok THEN Ok(Unit) ELSE rcv,
              trace |-> s.trace \o <<RecvEvent(rcv)>>]

\* Scope::Lifespan
LifespanCall(scope, rcv, snds) ==
    IF ~rcv.ok THEN [result |-> rcv, trace |-> <<RecvEvent(rcv)>>]
    ELSE LET s == SendAll(<<IF scope.event = "startup" THEN LifespanStartupComplete
                             ELSE LifespanShutdownComplete>>, snds, 1)
         IN  [result |-> s.result, trace |-> <<RecvEvent(rcv)>> \o s.trace]

\* Mutant: the response is written before the callback is invoked.
DispatchToCallback_SendsFirst(req, snds, orc) ==
    LET mv == MatchRouteAndValidate(req)
    IN  IF ~mv.ok THEN [result |-> mv, trace |-> <<>>]
        ELSE IF ~IsSome(callback) THEN [result |-> NoCallbackSet, trace |-> <<>>]
        ELSE LET r == InvokeCallback(Unwrap(callback), mv.val.handler_id,
                                     mv.val.payload, req, orc)
             IN  IF ~r.result.ok THEN r
                 ELSE LET response == r.result.val
                          content_type == IF IsSome(response.content_type)
                                          THEN Unwrap(response.content_type)
                                          ELSE "application/json"
                          s == SendAll(<<HttpResponseStart(response.status_code, content_type),
                                         HttpResponseBody(response.body, FALSE)>>, snds, 1)
                      IN  [result |-> s.result, trace |-> s.trace \o r.trace]

\* Mutant: the response is always announced as JSON.
DispatchToCallback_AlwaysJson(req, snds, orc) ==
    LET mv == MatchRouteAndValidate(req)
    IN  IF ~mv.ok THEN [result |-> mv, trace |-> <<>>]
        ELSE IF ~IsSome(callback) THEN [result |-> NoCallbackSet, trace |-> <<>>]
        ELSE LET r == InvokeCallback(Unwrap(callback), mv.val.handler_id,
                                     mv.val.payload, req, orc)
             IN  IF ~r.result.ok THEN r
                 ELSE LET response == r.result.val
                          s == SendAll(<<HttpResponseStart(response.status_code,
                                                           "application/json"),
                                         HttpResponseBody(response.body, FALSE)>>, snds, 1)
                      IN  [result |-> s.result, trace |-> r.trace \o s.trace]

\* What follows the two built-in paths: match, callback, the two sends.
DispatchToCallback(req, snds, orc) ==
    LET mv == MatchRouteAndValidate(req)
    IN  IF ~mv.ok THEN [result |-> mv, trace |-> <<>>]
        ELSE IF ~IsSome(callback) THEN [result |-> NoCallbackSet, trace |-> <<>>]
        ELSE LET r == InvokeCallback(Unwrap(callback), mv.val.handler_id,
                                     mv.val.payload, req, orc)
             IN  IF ~r.result.ok THEN r
                 ELSE LET response == r.result.val
                          content_type == IF IsSome(response.content_type)
                                          THEN Unwrap(response.content_type)
                                          ELSE "application/json"
                          s == SendAll(<<HttpResponseStart(response.status_code, content_type),
                                         HttpResponseBody(response.body, FALSE)>>, snds, 1)
                      IN  [result |-> s.result, trace |-> r.trace \o s.trace]

\* Mutant: an error is also written to the client as a 500 response.
HttpDispatch_WritesErrors(req, snds, orc) ==
    LET path == TrimStartSlashes(req.path)
        d == DispatchToCallback(req, snds, orc)
    IN  IF path = OpenapiPath
        THEN SendAll(<<HttpResponseStart(200, "application/json"),
                       HttpResponseBody(Text(OpenapiSpec, TRUE), FALSE)>>, snds, 1)
        ELSE IF path = DocsPath
        THEN SendAll(<<HttpResponseStart(200, "text/html"),
                       HttpResponseBody(SWAGGER_UI_HTML, FALSE)>>, snds, 1)
        ELSE IF d.result.ok \/ d.result = SendFailed THEN d
        ELSE [result |-> d.result,
              trace |-> d.trace \o SendAll(<<HttpResponseStart(500, "application/json"),
                                             HttpResponseBody(EmptyBytes, FALSE)>>,
                                           snds, 1).trace]

\* Mutant: the route table is tried first, the built-in paths are a fallback.
HttpDispatch_RoutesFirst(req, snds, orc) ==
    LET path == TrimStartSlashes(req.path)
        d == DispatchToCallback(req, snds, orc)
    IN  IF MatchRouteAndValidate(req).ok \/ path \notin {OpenapiPath, DocsPath} THEN d
        ELSE IF path = OpenapiPath
        THEN SendAll(<<HttpResponseStart(200, "application/json"),
                       HttpResponseBody(Text(OpenapiSpec, TRUE), FALSE)>>, snds, 1)
        ELSE SendAll(<<HttpResponseStart(200, "text/html"),
                       HttpResponseBody(SWAGGER_UI_HTML, FALSE)>>, snds, 1)

\* Scope::Http after the body has been received
HttpDispatch(req, snds, orc) ==
    LET path == TrimStartSlashes(req.path)
    IN  IF path = OpenapiPath
        THEN SendAll(<<HttpResponseStart(200, "application/json"),
                       HttpResponseBody(Text(OpenapiSpec, TRUE), FALSE)>>, snds, 1)
        ELSE IF path = DocsPath
        THEN SendAll(<<HttpResponseStart(200, "text/html"),
                       HttpResponseBody(SWAGGER_UI_HTML, FALSE)>>, snds, 1)
        ELSE DispatchToCallback(req, snds, orc)

\* Scope::Http
HttpCall(scope, rcv, snds, orc) ==
    IF ~rcv.ok THEN [result |-> rcv, trace |-> <<RecvEvent(rcv)>>]
    ELSE IF ~(IsSome(rcv.val) /\ Unwrap(rcv.val).type = "http.request")
    THEN [result |-> Err("Validation", "expected http.request"),
          trace |-> <<RecvEvent(rcv)>>]
    ELSE LET d == HttpDispatch(RequestContext(scope.method, scope.path,
                                              Unwrap(rcv.val).body), snds, orc)
         IN  [result |-> d.result, trace |-> <<RecvEvent(rcv)>> \o d.trace]

\* Mutant: the connection is closed with the normal-closure code.
WebSocketCall_NormalClose(scope, snds) == SendAll(<<WsClose(Some(1000))>>, snds, 1)

\* Scope::WebSocket
WebSocketCall(scope, snds) == SendAll(<<WsClose(Some(1008))>>, snds, 1)

\* UrichAsgi::call
UrichAsgiCall(scope, rcv, snds, orc) ==
    CASE scope.kind = "lifespan" -> LifespanCall(scope, rcv, snds)
      [] scope.kind = "http" -> HttpCall(scope, rcv, snds, orc)
      [] scope.kind = "websocket" -> WebSocketCall(scope, snds)

\* What the model keeps of one call of the application.
Called(scope, r) == Done("asgi_call", [scope |-> scope], r.result, r.trace)

AsgiCall(scope, rcv, snds) ==
    /\ UNCHANGED <<ws, server, inflight>>
    /\ UNCHANGED core_vars
    /\ UNCHANGED facade_vars
    /\ \E orc \in (IF IsSome(callback) THEN Oracles(Unwrap(callback))
                   ELSE Oracles(FnCallback("none"))) :
         last' = Called(scope, UrichAsgiCall(scope, rcv, snds, orc))

----------------------------------------------------------------------------
(* The ASGI entry point over an application with routes (with and without  *)
(* a request schema, one of them at the documentation path), a middleware  *)
(* and an installed callback.                                              *)

AsgiHttpScopes ==
    {HttpScope(POST, PlainPath), HttpScope(POST, <<Slash>> \o DocsPath),
     HttpScope(GET, DocsPath), HttpScope(POST, OpenapiPath)}
ReceiveFailed == Err("Validation", "receive failed")
HttpReceives ==
    {Ok(Some(HttpRequest(EmptyBytes))), Ok(Some(HttpRequest(Garbage))),
     Ok(None), ReceiveFailed}
LifespanEvents == {"startup", "shutdown"}
LifespanReceives(event) ==
    {Ok(Some(IF event = "startup" THEN LifespanStartup ELSE LifespanShutdown)),
     ReceiveFailed}
MaxSends == 2
\* The sends succeed until the one (if any) that fails.
SendAnswers(n) ==
    {[k \in 1..MaxSends |-> IF k = fail_at THEN "err" ELSE "ok"] : fail_at \in 0..n}

NextAsgi ==
    \/ \E sch \in Schemas :
         next_route_id < MaxIds /\ AppRegisterRoute(POST, PlainPath, sch)
    \/ next_route_id < MaxIds /\ AppRegisterRoute(POST, DocsPath, None)
    \/ /\ middlewares = <<>>
       /\ InstalledMiddlewares = <<>>
       /\ AppAddMiddleware("auth")
    \/ AppInstallCallback
    \/ \E scope \in AsgiHttpScopes, rcv \in HttpReceives, snds \in SendAnswers(2) :
         AsgiCall(scope, rcv, snds)
    \/ \E event \in LifespanEvents :
         \E rcv \in LifespanReceives(event), snds \in SendAnswers(1) :
             AsgiCall(LifespanScope(event), rcv, snds)
    \/ \E snds \in SendAnswers(1) : AsgiCall(WsScope(PlainPath), Ok(None), snds)

SpecAsgi == Init /\ [][NextAsgi]_vars

IsAsgiCall(kind) == last.op = "asgi_call" /\ last.args.scope.kind = kind
RecvEvents(trace) == {i \in 1..Len(trace) : trace[i].ev = "recv"}
SendEvents(trace) == {i \in 1..Len(trace) : trace[i].ev = "send"}
SendSeq(trace) == SelectSeq(trace, LAMBDA e : e.ev = "send")
\* The callback has returned a Response in this call.
ReturnedResponse(trace) == {i \in 1..Len(trace) : trace[i].ev = "ret" /\ trace[i].data.ok}
ContentTypeOf(response) ==
    IF IsSome(response.content_type) THEN Unwrap(response.content_type)
    ELSE "application/json"
OneReceiveFirst(trace) ==
    /\ RecvEvents(trace) = {1}
    /\ \A i \in SendEvents(trace) : i > 1

\* C12, as stated: for an Http scope whose request resolves and whose callback
\* returns a Response, call consumes exactly one message from receive and then
\* performs exactly two sends: HttpResponseStart with the Response's status,
\* then HttpResponseBody with the Response's body and more = false.  Fails when
\* the send endpoint answers the first send with an error: `.await?` returns
\* that error and the body is never sent.
C12_HttpAlwaysTwoSends ==
    IsAsgiCall("http") =>
        \A r \in ReturnedResponse(last.trace) :
            LET response == last.trace[r].data.val
                ss == SendSeq(last.trace)
            IN  /\ OneReceiveFirst(last.trace)
                /\ Len(ss) = 2
                /\ ss[1].data.msg = HttpResponseStart(response.status_code,
                                                      ContentTypeOf(response))
                /\ ss[2].data.msg = HttpResponseBody(response.body, FALSE)

\* C12, amended: for such a request call consumes exactly one message from
\* receive, then sends HttpResponseStart with the Response's status and, if
\* that send succeeded, HttpResponseBody with the Response's body and
\* more = false; nothing else is sent, every send comes after the callback has
\* returned, and call returns Ok exactly when both sends succeeded (otherwise
\* the error of the send that failed, which is the last send made).
C12_HttpStartThenBody ==
    IsAsgiCall("http") =>
        \A r \in ReturnedResponse(last.trace) :
            LET response == last.trace[r].data.val
                ss == SendSeq(last.trace)
            IN  /\ OneReceiveFirst(last.trace)
                /\ \A i \in SendEvents(last.trace) : i > r
                /\ Len(ss) \in 1..2
                /\ ss[1].data.msg = HttpResponseStart(response.status_code,
                                                      ContentTypeOf(response))
                /\ Len(ss) = 2 =>
                       /\ ss[1].data.sent = "ok"
                       /\ ss[2].data.msg = HttpResponseBody(response.body, FALSE)
                /\ Len(ss) = 1 => ss[1].data.sent = "err"
                /\ last.result = IF ss[Len(ss)].data.sent = "ok" THEN Ok(Unit)
                                 ELSE SendFailed

\* A request passes the middleware, the handler answers, both sends succeed.
C12_Witness ==
    /\ IsAsgiCall("http")
    /\ ReturnedResponse(last.trace) # {}
    /\ MwEvents(last.trace) # {}
    /\ HandlerEvents(last.trace) # {}
    /\ Len(SendSeq(last.trace)) = 2
    /\ last.result = Ok(Unit)

\* The request an Http call built from its scope and the message it received.
ReceivedRequest ==
    RequestContext(last.args.scope.method, last.args.scope.path,
                   Unwrap(last.trace[1].data.rcv.val).body)
GotHttpRequest ==
    /\ IsAsgiCall("http")
    /\ last.trace[1].data.rcv.ok
    /\ IsSome(last.trace[1].data.rcv.val)
    /\ Unwrap(last.trace[1].data.rcv.val).type = "http.request"
IsBuiltinPath(path) == TrimStartSlashes(path) \in {OpenapiPath, DocsPath}
FailedReturn(trace) == {i \in 1..Len(trace) : trace[i].ev = "ret" /\ ~trace[i].data.ok}

\* C13: for an Http scope, when route matching or validation fails, when no
\* callback is set, or when the callback itself returns an error, call returns
\* that same error value and has sent nothing: no response start, no response
\* body.
C13_HttpErrorsAreReturnedNotSent ==
    (GotHttpRequest /\ ~IsBuiltinPath(last.args.scope.path)) =>
        LET mv == MatchRouteAndValidate(ReceivedRequest)
        IN  /\ ~mv.ok => (last.result = mv /\ SendEvents(last.trace) = {})
            /\ (mv.ok /\ ~IsSome(callback)) =>
                   (last.result = NoCallbackSet /\ SendEvents(last.trace) = {})
            /\ \A r \in FailedReturn(last.trace) :
                   last.result = last.trace[r].data /\ SendEvents(last.trace) = {}
            /\ (~last.result.ok /\ SendEvents(last.trace) = {}) =>
                   \/ ~mv.ok
                   \/ ~IsSome(callback)
                   \/ FailedReturn(last.trace) # {}

\* The middleware let the request through and the handler failed.
C13_Witness ==
    /\ GotHttpRequest
    /\ MwEvents(last.trace) # {}
    /\ HandlerEvents(last.trace) # {}
    /\ FailedReturn(last.trace) # {}
    /\ last.result = Err("Validation", "handler")
    /\ SendEvents(last.trace) = {}

CompleteFor(event) ==
    IF event = "startup" THEN LifespanStartupComplete ELSE LifespanShutdownComplete

\* C14: for a Lifespan scope, call consumes exactly one message from receive
\* and then sends exactly one message, LifespanStartupComplete for Startup and
\* LifespanShutdownComplete for Shutdown; the send never precedes the receive,
\* and when the receive fails nothing is sent and the error is returned.
C14_LifespanOneReceiveOneSend ==
    IsAsgiCall("lifespan") =>
        /\ OneReceiveFirst(last.trace)
        /\ IF last.trace[1].data.rcv.ok
           THEN /\ Len(last.trace) = 2
                /\ last.trace[2].ev = "send"
                /\ last.trace[2].data.msg = CompleteFor(last.args.scope.event)
                /\ last.result = IF last.trace[2].data.sent = "ok" THEN Ok(Unit)
                                 ELSE SendFailed
           ELSE /\ Len(last.trace) = 1
                /\ last.result = last.trace[1].data.rcv

\* A shutdown scope: the sentinel is received, the acknowledgement is sent.
C14_Witness ==
    /\ IsAsgiCall("lifespan")
    /\ last.args.scope.event = "shutdown"
    /\ last.trace[1].data.rcv = Ok(Some(LifespanShutdown))
    /\ Len(last.trace) = 2
    /\ last.trace[2].data.msg = LifespanShutdownComplete
    /\ last.result = Ok(Unit)

\* C15: for a WebSocket scope, call sends exactly one message, WsClose with
\* code 1008, consumes nothing from receive, consults neither the route table
\* nor the middlewares nor the callback, and returns.
C15_WebSocketClosedWith1008 ==
    IsAsgiCall("websocket") =>
        /\ Len(last.trace) = 1
        /\ last.trace[1].ev = "send"
        /\ last.trace[1].data.msg = WsClose(Some(1008))
        /\ last.result = IF last.trace[1].data.sent = "ok" THEN Ok(Unit) ELSE SendFailed

\* A WebSocket scope on a path that has a route, with a middleware and the
\* callback installed.
C15_Witness ==
    /\ IsAsgiCall("websocket")
    /\ RouteKey(POST, last.args.scope.path) \in DOMAIN router
    /\ IsSome(callback)
    /\ Unwrap(callback).middlewares # <<>>
    /\ last.result = Ok(Unit)

\* C16: an Http request whose path, leading slashes aside, is "openapi.json" or
\* "docs" is answered by call itself with status 200 and content type
\* application/json, resp. text/html, in a final body chunk: nothing is
\* dispatched (no NotFound from the route table, no middleware, no callback),
\* also when no callback is installed and when a route is registered at that
\* path.
C16_BuiltinPathsAreIntercepted ==
    (GotHttpRequest /\ IsBuiltinPath(last.args.scope.path)) =>
        LET ss == SendSeq(last.trace)
            isDocs == TrimStartSlashes(last.args.scope.path) = DocsPath
        IN  /\ Len(last.trace) = 1 + Len(ss)
            /\ Len(ss) \in 1..2
            /\ ss[1].data.msg =
                   HttpResponseStart(200, IF isDocs THEN "text/html" ELSE "application/json")
            /\ Len(ss) = 2 =>
                   /\ ss[2].data.msg.type = "http.response.body"
                   /\ ss[2].data.msg.more = FALSE
                   /\ ss[2].data.msg.body =
                          IF isDocs THEN SWAGGER_UI_HTML ELSE Text(OpenapiSpec, TRUE)
            /\ Len(ss) = 1 => ss[1].data.sent = "err"
            /\ last.result = IF ss[Len(ss)].data.sent = "ok" THEN Ok(Unit) ELSE SendFailed

\* POST /docs while a route POST docs is registered and a callback with a
\* middleware is installed: the documentation page is sent.
C16_Witness ==
    /\ GotHttpRequest
    /\ last.args.scope = HttpScope(POST, <<Slash>> \o DocsPath)
    /\ MatchRouteAndValidate(ReceivedRequest).ok
    /\ IsSome(callback)
    /\ Unwrap(callback).middlewares # <<>>
    /\ Len(SendSeq(last.trace)) = 2
    /\ last.result = Ok(Unit)

----------------------------------------------------------------------------
(* RouteId allocation: every kind of registration on one App, up to and    *)
(* past the end of the u32 counter.                                        *)

OrdersContext == <<"/", "o", "/">>
CommandName == <<"c">>
QueryName == <<"q">>
AlmostFull == U32_MAX - 1
AllocOps == {"register_route", "add_command", "add_query", "add_rpc_route",
             "add_rpc_method", "subscribe_event"}

\* The ids the App holds: of routes, of RPC methods, of event subscribers.
HeldIds ==
    DOMAIN routes
        \cup {rpc_methods[n].id : n \in DOMAIN rpc_methods}
        \cup UNION {Range(event_subscriptions[t]) : t \in DOMAIN event_subscriptions}

\* Registrations are made at the start of the counter, at its end, and once
\* more after it.
NearTheEnd == \E h \in HeldIds \cup {next_route_id} : h < 0
MayAllocate ==
    IF next_route_id < 0 THEN TRUE
    ELSE IF NearTheEnd THEN next_route_id = 0
    ELSE next_route_id < MaxIds

NextIds ==
    \/ MayAllocate /\ RegisterRoute(POST, PlainPath, None)
    \/ MayAllocate /\ AddCommand(OrdersContext, CommandName, None)
    \/ MayAllocate /\ AddQuery(OrdersContext, QueryName, None)
    \/ MayAllocate /\ AddRpcRoute(RpcPath)
    \/ MayAllocate /\ AddRpcMethod("add", None)
    \/ MayAllocate /\ SubscribeEvent("OrderCreated")
    \/ /\ next_route_id \in 1..MaxIds
       /\ "add" \notin DOMAIN rpc_methods
       /\ AddRpcMethodRepeatedly("add", None, AlmostFull)
    \/ \E op \in AllocOps : AllocationPanics(op)

SpecIds == Init /\ [][NextIds]_vars

\* C20: whatever the kind of registration, the id it hands out is new, and
\* greater than every id handed out before, so that all ids handed out are
\* pairwise distinct and an id is never returned again.  Fails at the end of the
\* u32 counter: without overflow checks next_route_id wraps to 0 and the ids
\* 0, 1, ... are handed out a second time.
C20_RouteIdsNeverReused ==
    [][ (last'.op \in AllocOps /\ last'.result.ok /\ next_route_id' # next_route_id) =>
            LET id == IF last'.op = "add_rpc_route" THEN Unwrap(rpc_route_id')
                      ELSE last'.result.val.id
            IN  /\ id \notin HeldIds
                /\ \A h \in HeldIds : U32Less(h, id) ]_vars

-----------------------------------------------------------------------------
(* The WebSocket connection (http.rs): asgi_websocket_upgrade creates two  *)
(* bounded channels per connection and spawns run_ws_stream_loop, the pump *)
(* between the socket and the application's receive and send endpoints.    *)

conn_rest == <<router, routes, next_route_id, callback, rpc_route_id, rpc_methods,
               event_subscriptions, handlers, callback_installed, middlewares,
               external_callback, event_handlers, last, server, inflight>>

\* What the step from connection state old to connection state new adds to
\* the log: a frame (or the end of the stream) leaves the socket, an item
\* enters or leaves the inbound channel, a message enters the outbound
\* channel, a message in hand is written.
Logged(old, new) ==
    LET l == new.log
        reads == old.pc = "select" /\ (Len(new.inq) < Len(old.inq) \/ new.brk)
        forwards == Len(new.rxq) > Len(old.rxq)
        delivers == new.app = "running" /\ Len(new.rxq) < Len(old.rxq)
        sends == Len(new.txq) > Len(old.txq)
        writes == old.pc = "write" /\ new.pc = "select"
    IN  [on |-> TRUE,
         read |-> IF reads
                  THEN Append(l.read, IF old.inq = <<>> THEN "none" ELSE Head(old.inq))
                  ELSE l.read,
         fwd |-> IF forwards THEN Append(l.fwd, new.rxq[Len(new.rxq)]) ELSE l.fwd,
         dlv |-> IF delivers THEN Append(l.dlv, Head(old.rxq)) ELSE l.dlv,
         snt |-> IF sends THEN Append(l.snt, new.txq[Len(new.txq)]) ELSE l.snt,
         wrt |-> IF writes THEN Append(l.wrt, old.pending) ELSE l.wrt]

SetConn(c, k) ==
    /\ ws' = [ws EXCEPT ![c] = IF k.log.on THEN [k EXCEPT !.log = Logged(ws[c], k)]
                               ELSE k]
    /\ UNCHANGED conn_rest

\* A bounded mpsc channel accepts a message only while it holds fewer than
\* its capacity.
ChannelFull_Unbounded(q) == FALSE

ChannelFull(q) == Len(q) >= ChannelCapacity

\* Mutant: a ping or pong is forwarded like a data frame.
MapInbound_ForwardsPing(msg) ==
    IF msg = "none" THEN [act |-> "last", item |-> "eos"]
    ELSE IF msg \in {"text", "binary", "close", "ping", "pong"}
         THEN [act |-> "forward", item |-> msg]
    ELSE IF msg = "frame" THEN [act |-> "continue", item |-> "nothing"]
    ELSE [act |-> "forward", item |-> "err"]

\* The match on stream.next(): what the pump does with what it read.
MapInbound(msg) ==
    IF msg = "none" THEN [act |-> "last", item |-> "eos"]
    ELSE IF msg \in {"text", "binary", "close"} THEN [act |-> "forward", item |-> msg]
    ELSE IF msg \in {"ping", "pong", "frame"} THEN [act |-> "continue", item |-> "nothing"]
    ELSE [act |-> "forward", item |-> "err"]

\* The match on the message taken from the outbound channel.
MapOutbound(m) ==
    IF m \in {"send_text", "send_bytes"} THEN [act |-> "write", item |-> m]
    ELSE IF m = "send_empty" THEN [act |-> "continue", item |-> "nothing"]
    ELSE IF m = "close" THEN [act |-> "write", item |-> m]
    ELSE [act |-> "continue", item |-> "nothing"]

\* asgi_websocket_upgrade: the spawned task, once the handshake is over.
Upgrade(c) ==
    /\ ws[c].pc = "none"
    /\ SetConn(c, NewConnection)

\* The peer sends a frame, or the read of a frame meets a protocol error.
FrameArrives(c, f) ==
    /\ ws[c].sock = "open"
    /\ ws[c].pc # "done"
    /\ Len(ws[c].inq) < MaxInFlight
    /\ SetConn(c, [ws[c] EXCEPT !.inq = Append(@, f)])

\* The peer closes the socket: the stream ends after the frames in flight.
PeerCloses(c) ==
    /\ ws[c].sock = "open"
    /\ SetConn(c, [ws[c] EXCEPT !.sock = "closed"])

\* run_ws_stream_loop, the branch msg = stream.next()
StreamNext(c) ==
    LET k == ws[c]
        msg == IF k.inq = <<>> THEN "none" ELSE Head(k.inq)
        m == MapInbound(msg)
    IN  /\ k.pc = "select"
        /\ IF k.inq = <<>> THEN k.sock = "closed" ELSE TRUE
        /\ SetConn(c, [k EXCEPT !.inq = IF k.inq = <<>> THEN <<>> ELSE Tail(k.inq),
                                !.pc = IF m.act = "continue" THEN "select" ELSE "forward",
                                !.pending = m.item,
                                !.brk = (m.act = "last"),
                                !.errd = IF msg = "error" THEN TRUE ELSE k.errd])

\* Mutant: a send to a channel whose receiver is gone waits instead of failing.
TxRecvSend_WaitsForReceiver(c) ==
    LET k == ws[c]
    IN  /\ k.pc = "forward"
        /\ k.app # "returned"
        /\ ~ChannelFull(k.rxq)
        /\ SetConn(c, [k EXCEPT !.rxq = Append(@, k.pending),
                                !.pc = IF k.brk THEN "done" ELSE "select",
                                !.pending = "nothing",
                                !.brk = FALSE])

\* run_ws_stream_loop: tx_recv.send(..).await, of the end-of-stream marker
\* (let _ = ..; break) and of a mapped message (break when it fails).
TxRecvSend(c) ==
    LET k == ws[c]
    IN  /\ k.pc = "forward"
        /\ IF k.app = "returned"
           THEN SetConn(c, [k EXCEPT !.pc = "done", !.pending = "nothing", !.brk = FALSE])
           ELSE /\ ~ChannelFull(k.rxq)
                /\ SetConn(c, [k EXCEPT !.rxq = Append(@, k.pending),
                                        !.pc = IF k.brk THEN "done" ELSE "select",
                                        !.pending = "nothing",
                                        !.brk = FALSE])

\* Mutant: a closed outbound channel is skipped over.
RxSendRecv_IgnoreClosed(c) ==
    LET k == ws[c]
    IN  /\ k.pc = "select"
        /\ IF k.txq = <<>>
           THEN /\ k.app = "returned"
                /\ SetConn(c, k)
           ELSE LET m == MapOutbound(Head(k.txq))
                IN  SetConn(c, [k EXCEPT !.txq = Tail(@),
                                         !.pc = IF m.act = "write" THEN "write" ELSE "select",
                                         !.pending = m.item])

\* run_ws_stream_loop, the branch msg = rx_send.recv()
RxSendRecv(c) ==
    LET k == ws[c]
    IN  /\ k.pc = "select"
        /\ IF k.txq = <<>>
           THEN /\ k.app = "returned"
                /\ SetConn(c, [k EXCEPT !.pc = "done"])
           ELSE LET m == MapOutbound(Head(k.txq))
                IN  SetConn(c, [k EXCEPT !.txq = Tail(@),
                                         !.pc = IF m.act = "write" THEN "write" ELSE "select",
                                         !.pending = m.item])

\* run_ws_stream_loop: stream.send(ws_msg).await; an open socket takes the
\* message, a closed one may take it or fail.
StreamSend(c) ==
    LET k == ws[c]
    IN  /\ k.pc = "write"
        /\ \E ok \in (IF k.sock = "open" THEN {TRUE} ELSE {TRUE, FALSE}) :
              SetConn(c, [k EXCEPT !.pc = IF ok THEN "select" ELSE "done",
                                   !.pending = "nothing"])

\* WsReceiveDriver::recv
WsReceiveDriver_recv(item) ==
    IF item = "none" THEN "Ok(None)"
    ELSE IF item = "err" THEN "Err"
    ELSE IF item = "eos" THEN "Ok(None)"
    ELSE "Ok(Some)"

\* The application awaits its receive endpoint.
AppReceives(c) ==
    LET k == ws[c]
    IN  /\ k.app = "running"
        /\ IF k.rxq = <<>>
           THEN /\ k.pc = "done"
                /\ SetConn(c, [k EXCEPT !.got = WsReceiveDriver_recv("none")])
           ELSE SetConn(c, [k EXCEPT !.rxq = Tail(@),
                                    !.got = WsReceiveDriver_recv(Head(k.rxq))])

\* WsSendDriver::send: the application awaits its send endpoint.
AppSends(c, m) ==
    LET k == ws[c]
    IN  /\ k.app = "running"
        /\ IF k.pc = "done"
           THEN SetConn(c, [k EXCEPT !.got = "SendErr"])
           ELSE /\ ~ChannelFull(k.txq)
                /\ SetConn(c, [k EXCEPT !.txq = Append(@, m)])

\* AsgiApplication::call returns: both drivers are dropped.
AppReturns(c) ==
    /\ ws[c].app = "running"
    /\ SetConn(c, [ws[c] EXCEPT !.app = "returned", !.rxq = <<>>])

Frames == {"text", "ping", "error"}
Outbound == {"send_text", "other"}

\* One connection, every kind of frame and message.
NextWs ==
    \/ Upgrade(1)
    \/ \E f \in Frames : FrameArrives(1, f)
    \/ PeerCloses(1)
    \/ StreamNext(1)
    \/ TxRecvSend(1)
    \/ RxSendRecv(1)
    \/ StreamSend(1)
    \/ AppReceives(1)
    \/ \E m \in Outbound : AppSends(1, m)
    \/ AppReturns(1)

SpecWs == Init /\ [][NextWs]_vars

\* The pump is a spawned task that the runtime polls whenever it can go on,
\* and select! picks among its ready branches at random.
SpecWsFair ==
    /\ SpecWs
    /\ WF_vars(TxRecvSend(1))
    /\ WF_vars(StreamSend(1))
    /\ SF_vars(StreamNext(1))
    /\ SF_vars(RxSendRecv(1))

Upgraded(c) == ws[c].pc # "none"
PumpDone(c) == ws[c].pc = "done"

\* stream.next() has nothing left to yield but None.
StreamEnded(c) == ws[c].sock = "closed" /\ ws[c].inq = <<>>

\* Every sender of the outbound channel is dropped and the channel is drained.
OutboundClosed(c) == ws[c].app = "returned" /\ ws[c].txq = <<>>

\* The pump waits in tx_recv.send on a full inbound channel whose receiver
\* is alive.
Blocked(c) ==
    /\ ws[c].pc = "forward"
    /\ ChannelFull(ws[c].rxq)
    /\ ws[c].app = "running"

PumpExits(c) == ws[c].pc # "done" /\ ws'[c].pc = "done"

\* The socket is open, the outbound channel has its sender and the inbound
\* channel its receiver.
AllOpen(c) == ws[c].sock = "open" /\ ws[c].app = "running"

\* C17 as stated: once the socket stream has ended or the outbound channel is
\* closed, the pump loop eventually terminates.
C17_EitherConditionTerminates ==
    (Upgraded(1) /\ (StreamEnded(1) \/ OutboundClosed(1))) ~> PumpDone(1)

\* C17: the pump loop does not exit while the socket is open and both
\* channels have their other end; once the outbound channel is closed it
\* eventually exits; once the socket stream has ended it eventually exits
\* unless it stays blocked forwarding to a full inbound channel that the
\* application no longer reads.
C17_PumpTerminates ==
    /\ [][PumpExits(1) => ~AllOpen(1)]_vars
    /\ (Upgraded(1) /\ OutboundClosed(1)) ~> PumpDone(1)
    /\ [](Upgraded(1) /\ StreamEnded(1) => (<>PumpDone(1) \/ <>[]Blocked(1)))

C17_Witness ==
    /\ PumpDone(1)
    /\ StreamEnded(1)
    /\ ws[1].app = "running"
    /\ ws[1].rxq # <<>>
    /\ ws[1].rxq[Len(ws[1].rxq)] = "eos"

\* The pump takes what stream.next() yields.
ReadStep(c) ==
    /\ ws[c].pc = "select"
    /\ \/ Len(ws'[c].inq) < Len(ws[c].inq)
       \/ ws'[c].pc = "forward"

\* What that read yields.
ReadItem(c) == IF ws[c].inq = <<>> THEN "none" ELSE Head(ws[c].inq)

\* The pump calls stream.send.
WriteStep(c) == ws[c].pc = "write" /\ ws'[c].pc # "write"

\* C18: when the pump reads the end of the socket stream or a protocol error,
\* it forwards the end-of-stream marker and leaves the loop after that; once
\* it has read a protocol error it reads no frame and writes no message.
C18_ErrorEndsThePump ==
    /\ [][(ReadStep(1) /\ ReadItem(1) \in {"none", "error"}) =>
              (ws'[1].pending = "eos" /\ ws'[1].brk)]_vars
    /\ [][ws[1].errd => (~ReadStep(1) /\ ~WriteStep(1))]_vars

-----------------------------------------------------------------------------
(* Two connections at once, each with its own socket, pump, channels and   *)
(* application task.                                                        *)

PairFrames == {"text"}
PairOutbound == {"send_text"}

NextWsPair ==
    \/ \E c \in Conns : Upgrade(c)
    \/ \E c \in Conns : \E f \in PairFrames : FrameArrives(c, f)
    \/ \E c \in Conns : PeerCloses(c)
    \/ \E c \in Conns : StreamNext(c)
    \/ \E c \in Conns : TxRecvSend(c)
    \/ \E c \in Conns : RxSendRecv(c)
    \/ \E c \in Conns : StreamSend(c)
    \/ \E c \in Conns : AppReceives(c)
    \/ \E c \in Conns : \E m \in PairOutbound : AppSends(c, m)
    \/ \E c \in Conns : AppReturns(c)

SpecWsPair == Init /\ [][NextWsPair]_vars

\* One iteration step of the pump of a connection.
PumpStep(c) ==
    \/ StreamNext(c)
    \/ TxRecvSend(c)
    \/ RxSendRecv(c)
    \/ StreamSend(c)

\* What the pump of a connection waits for is there, as far as its own
\* socket and channels go.
PumpReady(c) ==
    \/ /\ ws[c].pc = "select"
       /\ \/ ws[c].inq # <<>>
          \/ ws[c].sock = "closed"
          \/ ws[c].txq # <<>>
          \/ ws[c].app = "returned"
    \/ /\ ws[c].pc = "forward"
       /\ (ws[c].app = "returned" \/ ~ChannelFull(ws[c].rxq))
    \/ ws[c].pc = "write"

ChannelsWithinCapacity ==
    \A c \in Conns : /\ Len(ws[c].rxq) <= ChannelCapacity
                     /\ Len(ws[c].txq) <= ChannelCapacity

\* While the application neither receives nor returns, the blocked pump
\* stays where it is.
BlockedPumpWaits(c) ==
    (Blocked(c) /\ Len(ws'[c].rxq) >= Len(ws[c].rxq) /\ ws'[c].app = "running") =>
        /\ ~ReadStep(c)
        /\ ~WriteStep(c)
        /\ ws'[c].pc = "forward"
        /\ ws'[c].pending = ws[c].pending
        /\ Len(ws'[c].inq) >= Len(ws[c].inq)
        /\ Len(ws'[c].txq) >= Len(ws[c].txq)

\* C19: neither channel of a connection ever holds more than its capacity;
\* a pump blocked forwarding to a full inbound channel reads no frame and
\* writes no message until its application receives or returns; a step of
\* one connection leaves every other connection as it is, and the pump of
\* another connection can go on whenever its own socket and channels allow.
C19_BackpressureIsPerConnection ==
    /\ []ChannelsWithinCapacity
    /\ [][\A c \in Conns : BlockedPumpWaits(c)]_vars
    /\ [][\A c \in Conns : \A d \in Conns \ {c} :
              ws'[d] # ws[d] => ws'[c] = ws[c]]_vars
    /\ [](\A c \in Conns : \A d \in Conns \ {c} :
              (Blocked(c) /\ PumpReady(d)) => ENABLED PumpStep(d))

C19_Witness ==
    /\ Blocked(1)
    /\ ws[2].pc = "forward"
    /\ ws[2].rxq # <<>>
    /\ ~ChannelFull(ws[2].rxq)

-----------------------------------------------------------------------------
(* Commands and queries: add_command and add_query over contexts with and  *)
(* without surrounding slashes, next to plain registrations of the same    *)
(* paths.                                                                   *)

SugarContexts == {<<"o">>, <<"/", "o", "/">>}
SugarNames == {<<"c">>, <<"c", "/">>}

\* "{context}/commands/{name}" and "{context}/queries/{name}"
CommandPath(context, name) == TrimSlashes(context) \o CommandsSegment \o name
QueryPath(context, name) == TrimSlashes(context) \o QueriesSegment \o name

SugarPaths ==
    {CommandPath(c, n) : c \in SugarContexts, n \in SugarNames}
        \cup {QueryPath(c, n) : c \in SugarContexts, n \in SugarNames}

SugarRequests == {RequestContext(m, p, EmptyBytes) : m \in {GET, POST}, p \in SugarPaths}

NextSugar ==
    \/ \E c \in SugarContexts, n \in SugarNames :
         next_route_id < MaxIds /\ AddCommand(c, n, None)
    \/ \E c \in SugarContexts, n \in SugarNames :
         next_route_id < MaxIds /\ AddQuery(c, n, None)
    \/ \E m \in {GET, POST}, p \in SugarPaths :
         next_route_id < MaxIds /\ RegisterRoute(m, p, None)
    \/ \E ctx \in SugarRequests : MatchAndValidate(ctx)

SpecSugar == Init /\ [][NextSugar]_vars

IsSugarOp == last.op \in {"add_command", "add_query"}
SugarMethod == IF last.op = "add_command" THEN POST ELSE GET
OtherMethod == IF last.op = "add_command" THEN GET ELSE POST
SugarPath ==
    IF last.op = "add_command" THEN CommandPath(last.args.context, last.args.name)
    ELSE QueryPath(last.args.context, last.args.name)

\* The other method finds nothing at the path, or a route registered for it.
OtherMethodIsSeparate ==
    LET hit == MatchRoute(router, OtherMethod, SugarPath)
    IN  IsSome(hit) =>
            /\ Unwrap(hit) # last.result.val.id
            /\ Unwrap(hit) \in DOMAIN routes
            /\ ToUppercase(routes[Unwrap(hit)].method) = OtherMethod

\* C22 (as claimed): after add_command(context, name), resp. add_query, a
\* request with POST, resp. GET, and the path "{context}/commands/{name}",
\* resp. "{context}/queries/{name}", resolves to the returned RouteId, and
\* the same path with the other method resolves to nothing unless a route was
\* registered for it.
C22_SugarRoutesResolve ==
    IsSugarOp =>
        /\ MatchRoute(router, SugarMethod, SugarPath) = Some(last.result.val.id)
        /\ OtherMethodIsSeparate

-----------------------------------------------------------------------------
(* The registry as a whole: plain routes, the RPC route, RPC methods and   *)
(* event subscribers side by side, with requests and published events.     *)

MaxRegs == 3

RegistryBodies == {EmptyBytes, Text(MethodOnly(JStr("add")), TRUE)}
RegistryRequests ==
    {RequestContext(POST, p, b) : p \in {RpcPath, PlainPath, <<"add">>}, b \in RegistryBodies}

NextRegistry ==
    \/ next_route_id < MaxRegs /\ RegisterRoute(POST, PlainPath, None)
    \/ next_route_id < MaxRegs /\ AddRpcRoute(RpcPath)
    \/ next_route_id < MaxRegs /\ AddRpcMethod("add", None)
    \/ next_route_id < MaxRegs /\ SubscribeEvent("OrderCreated")
    \/ SetCallback("f")
    \/ \E ctx \in RegistryRequests : MatchAndValidate(ctx)
    \/ \E ctx \in RegistryRequests : HandleRequest(ctx)
    \/ PublishEvent("OrderCreated", EmptyBytes)

SpecRegistry == Init /\ [][NextRegistry]_vars

MethodIds == {rpc_methods[n].id : n \in DOMAIN rpc_methods}
SubscriberIds == UNION {Range(event_subscriptions[t]) : t \in DOMAIN event_subscriptions}

\* The ids the callback was called with in the last operation.
CalledIds == {last.trace[i].id : i \in CallEvents(last.trace)}

\* The handler id the last request resolved to.
ResolvedIds ==
    IF last.op = "match_route_and_validate" /\ last.result.ok
    THEN {last.result.val.handler_id}
    ELSE IF last.op = "handle_request" THEN CalledIds
    ELSE {}

\* C23: add_rpc_method and subscribe_event leave the Router table and
\* App.routes as they are; no (method, path) resolves in the table to an id
\* they returned; a request resolves to a method's id only through the RPC
\* route and never to a subscriber's id, and publish_event calls subscribers'
\* ids only.
C23_MethodsAndSubscribersAreOffTheTable ==
    /\ [][last'.op \in {"add_rpc_method", "subscribe_event"} =>
              (router' = router /\ routes' = routes)]_vars
    /\ [](TableIds \cap (MethodIds \cup SubscriberIds) = {})
    /\ [](\A ctx \in RegistryRequests :
              LET hit == MatchRoute(router, ctx.method, ctx.path)
              IN  IsSome(hit) => Unwrap(hit) \notin MethodIds \cup SubscriberIds)
    /\ [](ResolvedIds \cap SubscriberIds = {})
    /\ [](ResolvedIds \cap MethodIds # {} => HitsRpcRoute)
    /\ [](last.op = "publish_event" => CalledIds \subseteq SubscriberIds)

C23_Witness ==
    /\ last.op = "handle_request"
    /\ HitsRpcRoute
    /\ CalledIds # {}
    /\ CalledIds \subseteq MethodIds
    /\ SubscriberIds # {}

-----------------------------------------------------------------------------
(* Request schemas: a plain route registered with and without a schema,    *)
(* and bodies that are not JSON, that are JSON objects and that are JSON   *)
(* of another type.                                                         *)

SchemaBodies ==
    { EmptyBytes, Garbage,
      Text(EmptyObject, TRUE),
      Text(JObj([a |-> JNum(1)]), FALSE),
      Text(JNum(5), TRUE) }

SchemaRequests == {RequestContext(POST, PlainPath, b) : b \in SchemaBodies}

NextSchema ==
    \/ \E sch \in Schemas : next_route_id < MaxIds /\ RegisterRoute(POST, PlainPath, sch)
    \/ SetCallback("f")
    \/ \E ctx \in SchemaRequests : MatchAndValidate(ctx)
    \/ \E ctx \in SchemaRequests : HandleRequest(ctx)

SpecSchema == Init /\ [][NextSchema]_vars

\* What the JSON Schema {"type": "object"} asks of a body.
SatisfiesSchema(body, schema) ==
    /\ body.kind = "json"
    /\ (schema.type = "object" => body.value.t = "obj")

\* The schema of the non-RPC route the last request matched, if it has one.
MatchedSchema ==
    LET hit == MatchRoute(router, last.args.method, last.args.path)
    IN  IF IsSome(hit) /\ ~IsRpcRoute(Unwrap(hit)) /\ Unwrap(hit) \in DOMAIN routes
        THEN routes[Unwrap(hit)].request_schema
        ELSE None

\* The payload the last request was resolved to, resp. the callback was
\* called with.
PayloadSeen ==
    IF last.op = "match_route_and_validate" THEN last.result.val.payload
    ELSE last.trace[1].data

\* C24 (as claimed): on a non-RPC route registered with a schema, a body that
\* does not satisfy the schema is rejected with an error and the callback is
\* not invoked; a body that satisfies it is accepted and reaches the callback
\* byte for byte.
C24_SchemaIsEnforced ==
    (IsRequestOp /\ IsSome(MatchedSchema)) =>
        IF SatisfiesSchema(last.args.body, Unwrap(MatchedSchema))
        THEN (last.op = "match_route_and_validate" \/ IsSome(callback)) =>
                 /\ last.op = "match_route_and_validate" => last.result.ok
                 /\ PayloadSeen = last.args.body
        ELSE /\ ~last.result.ok
             /\ last.trace = <<>>

-----------------------------------------------------------------------------
(* The RPC route with bodies that do not parse, and RPC methods that        *)
(* include one registered under the empty name.                             *)

PermissiveNames == {"", "add"}
PermissiveBodies == {EmptyBytes, Garbage, Text(MethodOnly(JStr("add")), TRUE)}
PermissiveRequests == {RequestContext(POST, RpcPath, b) : b \in PermissiveBodies}

NextPermissive ==
    \/ next_route_id < MaxRegs /\ AddRpcRoute(RpcPath)
    \/ \E n \in PermissiveNames, sch \in Schemas :
         next_route_id < MaxRegs /\ AddRpcMethod(n, sch)
    \/ SetCallback("f")
    \/ \E ctx \in PermissiveRequests : MatchAndValidate(ctx)
    \/ \E ctx \in PermissiveRequests : HandleRequest(ctx)

SpecPermissive == Init /\ [][NextPermissive]_vars

\* The last request hit the RPC route with a body that is not JSON.
UnparseableRpcRequest == HitsRpcRoute /\ ~FromSlice(last.args.body).ok

\* C25 as stated: a request on the RPC route whose body does not parse fails
\* with NotFound and the callback is not invoked.
C25_UnparseableIsNotFound ==
    UnparseableRpcRequest =>
        /\ ~last.result.ok
        /\ last.result.err = "NotFound"
        /\ last.trace = <<>>

\* C25: a request on the RPC route whose body does not parse is decoded as
\* null with the method name "": it fails with NotFound, the callback not
\* invoked, unless an RPC method is registered under the name ""; if one is,
\* the request resolves to that method's id with the payload null, and
\* handle_request calls the callback with them (or fails for want of one).
\* match_route_and_validate never fails with a Json or Validation error.
C25_UnparseableIsTheEmptyMethod ==
    UnparseableRpcRequest =>
        IF "" \notin DOMAIN rpc_methods
        THEN /\ ~last.result.ok
             /\ last.result.err = "NotFound"
             /\ last.trace = <<>>
        ELSE IF last.op = "match_route_and_validate"
        THEN last.result = Ok([handler_id |-> rpc_methods[""].id, payload |-> ToVec(JNull)])
        ELSE IF IsSome(callback)
        THEN /\ CalledIds = {rpc_methods[""].id}
             /\ last.trace[1].data = ToVec(JNull)
        ELSE last.result = NoCallbackSet /\ last.trace = <<>>

C25_Witness ==
    /\ last.op = "handle_request"
    /\ UnparseableRpcRequest
    /\ last.args.body = Garbage
    /\ "" \in DOMAIN rpc_methods
    /\ last.trace # <<>>

-----------------------------------------------------------------------------
(* The embedded transport (http.rs): one HTTP request that is not an        *)
(* upgrade is turned into a scope and a body, handed to the application    *)
(* through an HttpReceiveDriver and an HttpSendDriver, and answered with   *)
(* what the send driver collected or with the error the call returned.     *)

\* impl Display for CoreError (#[error(..)])
Display(e) ==
    IF e.err = "NotFound" THEN <<"route not found: ", e.msg>>
    ELSE IF e.err = "Validation" THEN <<"validation error: ", e.msg>>
    ELSE <<"invalid JSON: ", e.msg>>

HyperResponse(status, content_type, body) ==
    [status |-> status, content_type |-> content_type, body |-> body]

\* Mutant: only validation errors are the client's fault.
asgi_error_to_hyper_ServerError(e) ==
    HyperResponse(IF e.err = "NotFound" THEN 404
                  ELSE IF e.err = "Validation" THEN 400 ELSE 500,
                  Some("application/json"),
                  <<Text(JObj([error |-> JStr(Display(e))]), TRUE)>>)

\* asgi_error_to_hyper
asgi_error_to_hyper(e) ==
    HyperResponse(IF e.err = "NotFound" THEN 404 ELSE 400,
                  Some("application/json"),
                  <<Text(JObj([error |-> JStr(Display(e))]), TRUE)>>)

\* HttpSendDriver::send, message by message, from HttpSendDriver::new()
RECURSIVE HttpSendDriver_send(_, _, _)
HttpSendDriver_send(driver, msgs, k) ==
    IF k > Len(msgs) THEN driver
    ELSE LET m == msgs[k]
             next == IF m.type = "http.response.start"
                     THEN [driver EXCEPT !.status = Some(m.status),
                                         !.content_type = HeaderValue(m.headers, "Content-Type")]
                     ELSE IF m.type = "http.response.body"
                     THEN [driver EXCEPT !.body = Append(@, m.body)]
                     ELSE driver
         IN  HttpSendDriver_send(next, msgs, k + 1)

HttpSendDriver_new == [status |-> None, content_type |-> None, body |-> <<>>]

\* HttpSendDriver::into_hyper_response
into_hyper_response(driver) ==
    HyperResponse(IF IsSome(driver.status) THEN Unwrap(driver.status) ELSE 500,
                  driver.content_type, driver.body)

CollectFailed == Err("Validation", "body")

\* hyper_request_to_scope_and_body: the path loses its leading slashes; the
\* body of a GET with a query string is the JSON object of its parameters.
hyper_request_to_scope_and_body(req) ==
    IF ~req.body.ok THEN req.body
    ELSE Ok([scope |-> HttpScope(req.method, TrimStartSlashes(req.path)),
             body |-> IF ToUppercase(req.method) = GET /\ IsSome(req.query)
                      THEN ToVec(JObj([k \in DOMAIN Unwrap(req.query) |->
                                          JStr(Unwrap(req.query)[k])]))
                      ELSE req.body.val])

AlwaysSent == [k \in 1..MaxSends |-> "ok"]

\* The messages the application has sent, in order.
SentMessages(trace) ==
    [i \in 1..Len(SendSeq(trace)) |-> SendSeq(trace)[i].data.msg]

\* The match on the result of asgi.call: the response the send driver has
\* collected, or the error turned into a response.
AnswerOf(r) ==
    [response |-> IF r.result.ok
                  THEN into_hyper_response(HttpSendDriver_send(HttpSendDriver_new,
                                                               SentMessages(r.trace), 1))
                  ELSE asgi_error_to_hyper(r.result),
     call |-> Some(r.result), trace |-> r.trace]

\* The scope and the body are built, then the application is called once.
CallAndAnswer(sb, orc) ==
    IF ~sb.ok
    THEN [response |-> asgi_error_to_hyper(sb), call |-> None, trace |-> <<>>]
    ELSE AnswerOf(UrichAsgiCall(sb.val.scope, Ok(Some(HttpRequest(sb.val.body))),
                                AlwaysSent, orc))

\* asgi_http_or_ws_to_hyper for a request that is not an upgrade: what the
\* client is answered, what the one call of the application returned (None
\* when it was not called) and what happened inside that call.
asgi_http_to_hyper(req, orc) ==
    CallAndAnswer(hyper_request_to_scope_and_body(req), orc)

\* What the model keeps of one served request.
Served(req, r) ==
    Done("serve_http", req, Ok([response |-> r.response, call |-> r.call]), r.trace)

\* Mutant: a request that finds the callback slot empty fills it.
ServeHttp_SetsCallback(req) ==
    /\ UNCHANGED <<ws, server, inflight>>
    /\ callback' = IF IsSome(callback) THEN callback ELSE Some(FnCallback("default"))
    /\ UNCHANGED <<router, routes, next_route_id, rpc_route_id, rpc_methods,
                   event_subscriptions>>
    /\ UNCHANGED facade_vars
    /\ \E orc \in (IF IsSome(callback) THEN Oracles(Unwrap(callback))
                   ELSE Oracles(FnCallback("none"))) :
         last' = Served(req, asgi_http_to_hyper(req, orc))

ServeHttp(req) ==
    /\ UNCHANGED <<ws, server, inflight>>
    /\ UNCHANGED core_vars
    /\ UNCHANGED facade_vars
    /\ \E orc \in (IF IsSome(callback) THEN Oracles(Unwrap(callback))
                   ELSE Oracles(FnCallback("none"))) :
         last' = Served(req, asgi_http_to_hyper(req, orc))

HyperRequest(method, path, query, body) ==
    [method |-> method, path |-> path, query |-> query, body |-> body]

ServeQueries == {None, Some([k |-> "v"])}
ServeBodies == {Ok(EmptyBytes), Ok(Garbage), Ok(Text(EmptyObject, TRUE)), CollectFailed}
ServeRequests ==
    {HyperRequest(m, p, q, b) :
        m \in {POST, GET}, p \in {<<Slash>> \o PlainPath, <<Slash, "y">>, <<Slash>> \o DocsPath},
        q \in ServeQueries, b \in ServeBodies}
ServeContexts ==
    {RequestContext(POST, p, b) : p \in {PlainPath, <<"y">>}, b \in {EmptyBytes, Garbage}}

NextServe ==
    \/ \E m \in {POST, GET}, sch \in Schemas :
         next_route_id < MaxIds /\ RegisterRoute(m, PlainPath, sch)
    \/ SetCallback("f")
    \/ \E ctx \in ServeContexts : HandleRequest(ctx)
    \/ \E scope \in {HttpScope(POST, PlainPath), HttpScope(POST, <<"y">>)},
          b \in {EmptyBytes, Garbage} :
         AsgiCall(scope, Ok(Some(HttpRequest(b))), AlwaysSent)
    \/ \E req \in ServeRequests : ServeHttp(req)

SpecServe == Init /\ [][NextServe]_vars

IsServeHttp == last.op = "serve_http"
CallFailed == IsSome(last.result.val.call) /\ ~Unwrap(last.result.val.call).ok
FailedWith == Unwrap(last.result.val.call)
Answer == last.result.val.response

\* C26: the transport answers an error returned by the application call with
\* status 404 if and only if the error is NotFound and with status 400
\* otherwise, always with the JSON body {"error": <message>}; the application
\* is called once for the request, and so is the callback at most.
C26_ErrorsBecomeOneResponse ==
    IsServeHttp =>
        /\ CallFailed =>
               /\ (Answer.status = 404) = (FailedWith.err = "NotFound")
               /\ FailedWith.err # "NotFound" => Answer.status = 400
               /\ Answer.content_type = Some("application/json")
               /\ Answer.body = <<Text(JObj([error |-> JStr(Display(FailedWith))]), TRUE)>>
               /\ SendEvents(last.trace) = {}
        /\ IsSome(last.result.val.call) => Cardinality(RecvEvents(last.trace)) = 1
        /\ Cardinality(CallEvents(last.trace)) <= 1

C26_Witness ==
    /\ IsServeHttp
    /\ CallFailed
    /\ FailedWith.err = "Json"
    /\ Answer.status = 400
    /\ \E i \in DOMAIN routes : IsSome(routes[i].request_schema)

\* The request of the last operation, as handle_request, resp. the Http arm
\* of UrichAsgi::call, hands it to match_route_and_validate.
RequestOf ==
    IF last.op = "handle_request" THEN last.args ELSE ReceivedRequest

\* A request went to App::handle_request or, past the built-in paths, to the
\* Http arm of UrichAsgi::call.
IsDispatchedRequest ==
    \/ last.op = "handle_request"
    \/ GotHttpRequest /\ ~IsBuiltinPath(last.args.scope.path)

\* C27: with no callback installed, through App::handle_request and through
\* UrichAsgi::call alike, a request that matches a route and passes
\* validation fails with Validation "no callback set", and a request that
\* does not fails with the error of match_route_and_validate, NotFound for a
\* route that is not registered; nothing is called and nothing is sent.
C27_NoCallbackIsValidationAfterRouting ==
    (IsDispatchedRequest /\ ~IsSome(callback)) =>
        /\ last.result = IF MatchRouteAndValidate(RequestOf).ok THEN NoCallbackSet
                         ELSE MatchRouteAndValidate(RequestOf)
        /\ ~IsSome(MatchRoute(router, RequestOf.method, RequestOf.path)) =>
               (~last.result.ok /\ last.result.err = "NotFound")
        /\ CallEvents(last.trace) = {}
        /\ SendEvents(last.trace) = {}

C27_Witness ==
    /\ IsAsgiCall("http")
    /\ ~IsSome(callback)
    /\ last.result = NoCallbackSet
    /\ DOMAIN routes # {}

----------------------------------------------------------------------------
(* The order of the steps of one HTTP request, read off the trace of the   *)
(* call: the receive, the invocation of the callback ("call"), the         *)
(* middlewares, the handler, the return of the callback ("ret"), the sends.*)

RetEvents(trace) == {i \in 1..Len(trace) : trace[i].ev = "ret"}
Precede(is, js) == \A i \in is, j \in js : i < j

----------------------------------------------------------------------------
(* App::run (lib.rs) and run_with_asgi (http.rs): the runtime is built,    *)
(* the lifespan startup call is awaited, the listener is bound, and the    *)
(* loop selects between the shutdown signal and the next accept.           *)
(* server.events is the history of what run_with_asgi has done and of the  *)
(* signal it was sent.                                                     *)

\* Connections accepted (or failed to be accepted) in one run.
MaxAccepts == 2

RuntimeFailed == Err("Io", "runtime")
BindFailed == Err("Io", "bind")
\* An AsgiApplication other than UrichAsgi may fail a lifespan call.
LifespanFailed == Err("Validation", "lifespan")

Count(events, kinds) == Cardinality({i \in 1..Len(events) : events[i] \in kinds})
StartupEvents == {"startup_ok", "startup_err"}
ShutdownEvents == {"shutdown_ok", "shutdown_err"}
AcceptEvents == {"accept", "accept_err"}
Happened(kinds) == Count(server.events, kinds) > 0

\* asgi.call with a lifespan scope and the lifespan drivers of http.rs: the
\* receive driver hands out its event, the send driver always succeeds.
LifespanDriverCall(event, app_fails) ==
    IF app_fails
    THEN [result |-> LifespanFailed, trace |-> <<>>]
    ELSE LifespanCall(LifespanScope(event),
                      Ok(Some(IF event = "startup" THEN LifespanStartup
                              ELSE LifespanShutdown)),
                      [k \in 1..MaxSends |-> "ok"])

\* App::run up to block_on: the App moves into the lock, the runtime is built.
Run(built) ==
    /\ server.pc = "registering"
    /\ server' = IF built THEN [server EXCEPT !.pc = "startup"]
                 ELSE [server EXCEPT !.pc = "returned", !.result = Some(RuntimeFailed)]
    /\ UNCHANGED <<core_vars, facade_vars, last, ws, inflight>>

\* The startup call has returned r: an error is printed, the run goes on.
StartupReturned(r) ==
    /\ server' = [server EXCEPT !.pc = "bind",
                                !.events = Append(@, IF r.result.ok THEN "startup_ok"
                                                     ELSE "startup_err")]
    /\ last' = Called(LifespanScope("startup"), r)

StartupReturned_Fatal(r) ==
    /\ server' = IF r.result.ok
                 THEN [server EXCEPT !.pc = "bind", !.events = Append(@, "startup_ok")]
                 ELSE [server EXCEPT !.pc = "returned",
                                     !.events = Append(@, "startup_err"),
                                     !.result = Some(r.result)]
    /\ last' = Called(LifespanScope("startup"), r)

\* The shutdown call has returned r: the result is dropped, the loop breaks
\* with Ok(()).
ShutdownReturned(r) ==
    /\ server' = [server EXCEPT !.pc = "returned",
                                !.events = Append(@, IF r.result.ok THEN "shutdown_ok"
                                                     ELSE "shutdown_err"),
                                !.result = Some(Ok("unit"))]
    /\ last' = Called(LifespanScope("shutdown"), r)

\* Mutant: a failed startup call ends the run.
StartupCall_Fatal(app_fails) ==
    /\ server.pc = "startup"
    /\ StartupReturned_Fatal(LifespanDriverCall("startup", app_fails))
    /\ UNCHANGED <<core_vars, facade_vars, ws, inflight>>

\* The startup block: the call is awaited, its error is only printed.
StartupCall(app_fails) ==
    /\ server.pc = "startup"
    /\ StartupReturned(LifespanDriverCall("startup", app_fails))
    /\ UNCHANGED <<core_vars, facade_vars, ws, inflight>>

\* TcpListener::bind(&addr).await? and the creation of the signal future.
Bind(bound) ==
    /\ server.pc = "bind"
    /\ server' = IF bound THEN [server EXCEPT !.pc = "loop", !.events = Append(@, "bound")]
                 ELSE [server EXCEPT !.pc = "returned", !.result = Some(BindFailed)]
    /\ UNCHANGED <<core_vars, facade_vars, last, ws, inflight>>

\* The process is sent the interrupt signal while the loop is selecting.
ShutdownSignal ==
    /\ server.pc = "loop"
    /\ ~Happened({"signal"})
    /\ server' = [server EXCEPT !.events = Append(@, "signal")]
    /\ UNCHANGED <<core_vars, facade_vars, last, ws, inflight>>

\* The accept branch of the select: a failed accept is printed and the loop
\* continues, a connection gets a task of its own.
Accept(accepted) ==
    /\ server.pc = "loop"
    /\ Count(server.events, AcceptEvents) < MaxAccepts
    /\ server' = [server EXCEPT !.events = Append(@, IF accepted THEN "accept"
                                                     ELSE "accept_err")]
    /\ UNCHANGED <<core_vars, facade_vars, last, ws, inflight>>

\* The shutdown branch of the select: the shutdown call is awaited, its
\* result is dropped, the loop breaks with Ok(()).
ShutdownBranch(app_fails) ==
    /\ server.pc = "loop"
    /\ Happened({"signal"})
    /\ ShutdownReturned(LifespanDriverCall("shutdown", app_fails))
    /\ UNCHANGED <<core_vars, facade_vars, ws, inflight>>

\* A request on a connection the loop has accepted.
Serving == server.pc = "loop" /\ Happened({"accept"})

RunBodies == {EmptyBytes, Garbage}
RunRequests ==
    {HyperRequest(POST, <<Slash>> \o PlainPath, <<>>, Ok(b)) : b \in RunBodies}

NextRun ==
    \/ \E sch \in Schemas :
         /\ server.pc = "registering"
         /\ next_route_id < MaxIds
         /\ RegisterRoute(POST, PlainPath, sch)
    \/ server.pc = "registering" /\ ~IsSome(callback) /\ SetCallback("f")
    \/ \E built \in BOOLEAN : Run(built)
    \/ \E app_fails \in BOOLEAN : StartupCall(app_fails)
    \/ \E bound \in BOOLEAN : Bind(bound)
    \/ \E accepted \in BOOLEAN : Accept(accepted)
    \/ \E req \in RunRequests : Serving /\ ServeHttp(req)
    \/ \E snds \in SendAnswers(1) :
         Serving /\ AsgiCall(WsScope(PlainPath), Ok(None), snds)
    \/ ShutdownSignal
    \/ \E app_fails \in BOOLEAN : ShutdownBranch(app_fails)

SpecRun == Init /\ [][NextRun]_vars

Indices(kinds) == {i \in 1..Len(server.events) : server.events[i] \in kinds}
Returned == server.pc = "returned"
ReturnedOk == Returned /\ server.result = Some(Ok("unit"))

\* C30 as stated: a run of run_with_asgi that has made the startup call
\* makes the shutdown call exactly once before it returns.
C30_ShutdownExactlyOnce ==
    (Returned /\ Happened(StartupEvents)) => Count(server.events, ShutdownEvents) = 1

\* C30: the startup call is made once and completes before the listener is
\* bound and before any accept; the shutdown call is made at most once,
\* after the signal and after every accept, and the run then returns Ok
\* whatever the call returned; a run that returns Ok has made it exactly
\* once. A run returns an error only when the runtime cannot be built or the
\* listener cannot be bound, never because the startup call failed, and it
\* has then accepted nothing and made no shutdown call.
C30_StartupThenAcceptsThenOneShutdown ==
    /\ Count(server.events, StartupEvents) <= 1
    /\ Count(server.events, ShutdownEvents) <= 1
    /\ Happened(AcceptEvents \cup {"bound", "signal"}) => Happened(StartupEvents)
    /\ Precede(Indices(StartupEvents), Indices(AcceptEvents \cup {"bound"}))
    /\ Happened(ShutdownEvents) =>
           /\ ReturnedOk
           /\ Precede(Indices({"signal"}), Indices(ShutdownEvents))
           /\ Precede(Indices(AcceptEvents), Indices(ShutdownEvents))
    /\ Returned =>
           IF server.result = Some(Ok("unit"))
           THEN Count(server.events, ShutdownEvents) = 1
           ELSE /\ server.result \in {Some(RuntimeFailed), Some(BindFailed)}
                /\ ~Happened(AcceptEvents \cup ShutdownEvents \cup {"bound"})

C30_Witness ==
    /\ ReturnedOk
    /\ server.events[1] = "startup_err"
    /\ Happened({"accept"})
    /\ Happened({"shutdown_err"})

\* C29: from the moment App::run has taken the App, no step (no HTTP
\* request, no WebSocket call, no lifespan call, nothing run_with_asgi does)
\* changes the route table, the routes map, the id counter, the RPC route
\* and method table, the event subscriptions or the callback slot.
C29_ServingNeverMutatesTheRegistry ==
    [][server.pc # "registering" => UNCHANGED core_vars]_vars

\* A request has been served on an accepted connection, by the callback, over
\* a registry that holds a route.
C29_Witness ==
    /\ Serving
    /\ IsServeHttp
    /\ DOMAIN routes # {}
    /\ IsSome(callback)
    /\ IsSome(last.result.val.call)
    /\ Unwrap(last.result.val.call).ok

----------------------------------------------------------------------------
(* The facade with two external callbacks to choose from, routes with and  *)
(* without a handler of their own, and one middleware.                     *)

ExternalTags == {"py", "js"}
ExternalBodies == {EmptyBytes, Garbage}

NextExternal ==
    \/ next_route_id < MaxIds /\ AppRegisterRoute(POST, PlainPath, None)
    \/ next_route_id < MaxIds /\ RegisterRoute(POST, PlainPath, None)
    \/ /\ middlewares = <<>>
       /\ InstalledMiddlewares = <<>>
       /\ AppAddMiddleware("auth")
    \/ \E ext \in ExternalTags : AppSetExternalCallback(ext)
    \/ AppInstallCallback
    \/ \E b \in ExternalBodies : AppHandleRequest(POST, PlainPath, b)

SpecExternal == Init /\ [][NextExternal]_vars

\* The installation takes place in this step.
Installs == ~callback_installed /\ callback_installed'

ExtEvents(trace) == {i \in 1..Len(trace) : trace[i].ev = "ext"}
OwnHandlerEvents(trace) == {i \in 1..Len(trace) : trace[i].ev = "handler"}

\* What a request does under the installed callback: with the external
\* closure it reaches, after every middleware has passed, the external
\* callback the closure holds and no handler of the map; with the handlers
\* closure it reaches no external callback, whatever was set afterwards.
RequestsFollowTheInstalledKind ==
    (IsAppRequest /\ IsSome(callback)) =>
        LET cb == Unwrap(callback)
            t == last.trace
        IN  /\ cb.kind = "external" =>
                /\ OwnHandlerEvents(t) = {}
                /\ \A i \in ExtEvents(t) : t[i].who = cb.ext
                /\ Precede(MwEvents(t), ExtEvents(t))
                /\ (CallEvents(t) # {} /\ AllNone(t, cb.middlewares))
                       => Cardinality(ExtEvents(t)) = 1
            /\ cb.kind = "handlers" => ExtEvents(t) = {}

\* C31: an installation that finds an external callback set installs the
\* closure over that callback (the last one set) and over the middlewares,
\* whether or not handlers were registered; from then on every request goes,
\* after the middleware chain, to that external callback and never to a
\* handler of the map; an external callback set after the installation
\* changes nothing in the slot and is never called.
C31_ExternalCallbackReplacesHandlers ==
    /\ []RequestsFollowTheInstalledKind
    /\ [][(Installs /\ IsSome(external_callback)) =>
              callback' = Some(ExternalClosure(Unwrap(external_callback), middlewares))]_vars
    /\ [][callback_installed => callback' = callback]_vars

\* A request reached the external callback although its route has a handler
\* in the map, and another external callback was set after the installation.
C31_Witness ==
    /\ IsAppRequest
    /\ IsSome(callback)
    /\ Unwrap(callback).kind = "external"
    /\ handlers # {}
    /\ ExtEvents(last.trace) # {}
    /\ \A i \in ExtEvents(last.trace) : last.trace[i].id \in handlers
    /\ IsSome(external_callback)
    /\ Unwrap(external_callback) # Unwrap(callback).ext

----------------------------------------------------------------------------
(* The Http arm of UrichAsgi::call past the built-in paths, step by step,  *)
(* for tasks that run at the same time over one Arc<RwLock<App>>: the two  *)
(* blocks that take the read lock, the await of the callback, the sends.   *)
(* A writer stands for any holder of the Arc that takes the write lock.    *)

Task(t) == inflight.task[t]

SetTask(t, k, readers) ==
    /\ inflight' = [inflight EXCEPT !.task[t] = k, !.readers = readers]
    /\ UNCHANGED <<core_vars, facade_vars, last, ws, server>>

\* receive.recv() has returned the body and the RequestContext is built.
BeginCall(t, req) ==
    /\ Task(t).pc = "idle"
    /\ SetTask(t, [IdleCall EXCEPT !.pc = "to_match", !.req = req], inflight.readers)

\* self.app.read(): granted while no writer holds the lock.
ReadLock(t, from, to) ==
    /\ Task(t).pc = from
    /\ ~inflight.writer
    /\ SetTask(t, [Task(t) EXCEPT !.pc = to, !.acquired = @ + 1],
               inflight.readers \cup {t})

\* The first block: match_route_and_validate under the guard; the guard is
\* dropped at the end of the block, also when `?` returns the error.
Matched(t, mv) ==
    SetTask(t,
            IF mv.ok THEN [Task(t) EXCEPT !.pc = "to_fetch", !.matched = mv.val]
            ELSE [Task(t) EXCEPT !.pc = "returned", !.result = mv],
            inflight.readers \ {t})

MatchAndUnlock(t) ==
    /\ Task(t).pc = "matching"
    /\ Matched(t, MatchRouteAndValidate(Task(t).req))

\* Mutant: the guard taken for the callback lives until the call returns.
FetchAndUnlock_KeepsGuard(t) ==
    /\ Task(t).pc = "fetching"
    /\ SetTask(t,
               IF IsSome(callback)
               THEN [Task(t) EXCEPT !.pc = "ready", !.cb = Unwrap(callback)]
               ELSE [Task(t) EXCEPT !.pc = "returned", !.result = NoCallbackSet],
               IF IsSome(callback) THEN inflight.readers ELSE inflight.readers \ {t})

\* The second block: get_callback clones the Arc under the guard; the guard
\* is dropped at the end of the block.
FetchAndUnlock(t) ==
    /\ Task(t).pc = "fetching"
    /\ SetTask(t,
               IF IsSome(callback)
               THEN [Task(t) EXCEPT !.pc = "ready", !.cb = Unwrap(callback)]
               ELSE [Task(t) EXCEPT !.pc = "returned", !.result = NoCallbackSet],
               inflight.readers \ {t})

\* cb(handler_id, &payload, &req): the future is created and first polled.
PollCallback(t) ==
    /\ Task(t).pc = "ready"
    /\ SetTask(t, [Task(t) EXCEPT !.pc = "in_callback"], inflight.readers)

\* .await? : the future completes with r.
Completed(t, r) ==
    SetTask(t,
            IF r.ok THEN [Task(t) EXCEPT !.pc = "sending", !.result = r]
            ELSE [Task(t) EXCEPT !.pc = "returned", !.result = r],
            inflight.readers)

CallbackCompletes(t) ==
    /\ Task(t).pc = "in_callback"
    /\ \E orc \in Oracles(Task(t).cb) :
         Completed(t, InvokeCallback(Task(t).cb, Task(t).matched.handler_id,
                                     Task(t).matched.payload, Task(t).req, orc).result)

\* The two sends and Ok(()), or the error of a send.
SendResponse(t, sent) ==
    /\ Task(t).pc = "sending"
    /\ SetTask(t, [Task(t) EXCEPT !.pc = "returned",
                                  !.result = IF sent THEN Ok(Unit) ELSE SendFailed],
               inflight.readers)

\* The call has returned and the task may serve its next request.
EndCall(t) ==
    /\ Task(t).pc = "returned"
    /\ SetTask(t, IdleCall, inflight.readers)

\* app.write(): granted while nobody holds the lock.
WriteLock ==
    /\ ~inflight.writer
    /\ inflight.readers = {}
    /\ inflight' = [inflight EXCEPT !.writer = TRUE]
    /\ UNCHANGED <<core_vars, facade_vars, last, ws, server>>

\* The writer replaces the callback and drops its guard.
WriteUnlock(tag) ==
    /\ inflight.writer
    /\ inflight' = [inflight EXCEPT !.writer = FALSE]
    /\ callback' = Some(FnCallback(tag))
    /\ UNCHANGED <<router, routes, next_route_id, rpc_route_id, rpc_methods,
                   event_subscriptions>>
    /\ UNCHANGED <<facade_vars, last, ws, server>>

LockRequests ==
    {RequestContext(POST, p, EmptyBytes) : p \in {PlainPath, <<"y">>}}
Quiet == inflight = NoCalls

NextLock ==
    \/ Quiet /\ next_route_id < MaxIds /\ RegisterRoute(POST, PlainPath, None)
    \/ Quiet /\ ~IsSome(callback) /\ SetCallback("f")
    \/ \E t \in Tasks, req \in LockRequests : BeginCall(t, req)
    \/ \E t \in Tasks : ReadLock(t, "to_match", "matching")
    \/ \E t \in Tasks : MatchAndUnlock(t)
    \/ \E t \in Tasks : ReadLock(t, "to_fetch", "fetching")
    \/ \E t \in Tasks : FetchAndUnlock(t)
    \/ \E t \in Tasks : PollCallback(t)
    \/ \E t \in Tasks : CallbackCompletes(t)
    \/ \E t \in Tasks, sent \in BOOLEAN : SendResponse(t, sent)
    \/ \E t \in Tasks : EndCall(t)
    \/ WriteLock
    \/ WriteUnlock("g")

SpecLock == Init /\ [][NextLock]_vars

InCallback(t) == Task(t).pc = "in_callback"
UnderGuard(t) == Task(t).pc \in {"matching", "fetching"}

\* The read lock is held exactly inside the two blocks, it has been taken
\* twice and is free again when the callback is invoked, and it is not
\* taken a third time.
GuardsAreBlockScoped ==
    /\ inflight.readers = {t \in Tasks : UnderGuard(t)}
    /\ \A t \in Tasks :
         /\ Task(t).acquired <= 2
         /\ Task(t).pc \in {"ready", "in_callback", "sending"} => Task(t).acquired = 2
         /\ InCallback(t) => t \notin inflight.readers

\* C32: a task holds the read lock only inside the block that matches and
\* validates and inside the block that fetches the callback, once each;
\* between the invocation of the callback and its completion it holds
\* nothing, so that a writer is granted the lock whenever no task is inside
\* one of the two blocks, and another reader whenever no writer holds it,
\* however long the callbacks in flight run.
C32_NoLockAcrossTheCallback ==
    /\ []GuardsAreBlockScoped
    /\ []((~inflight.writer /\ \A t \in Tasks : ~UnderGuard(t)) => ENABLED WriteLock)
    /\ [](\A t \in Tasks :
             (~inflight.writer /\ Task(t).pc = "to_match")
                 => ENABLED ReadLock(t, "to_match", "matching"))

\* A writer holds the lock while one callback is running, and has replaced
\* the callback that the running call had fetched.
C32_Witness ==
    /\ inflight.writer
    /\ \E t \in Tasks : InCallback(t) /\ Some(Task(t).cb) # callback
    /\ \E t \in Tasks : Task(t).pc = "to_match"

----------------------------------------------------------------------------
(* The ASGI entry point over callbacks that answer with different statuses *)
(* and content types: a handler of the map (200, no content type), an     *)
(* external callback with a content type of its own (201, text/plain), a   *)
(* middleware that short-circuits (401).                                   *)

HeaderTags == {"py", "txt"}
HeaderBodies == {EmptyBytes, Text(EmptyObject, TRUE)}

NextHeaders ==
    \/ next_route_id < MaxIds /\ AppRegisterRoute(POST, PlainPath, None)
    \/ /\ middlewares = <<>>
       /\ InstalledMiddlewares = <<>>
       /\ AppAddMiddleware("auth")
    \/ \E ext \in HeaderTags : ~callback_installed /\ AppSetExternalCallback(ext)
    \/ AppInstallCallback
    \/ \E b \in HeaderBodies, snds \in SendAnswers(2) :
         AsgiCall(HttpScope(POST, PlainPath), Ok(Some(HttpRequest(b))), snds)

SpecHeaders == Init /\ [][NextHeaders]_vars

\* The Response the callback has returned in the last call.
ReturnedByCallback ==
    last.trace[CHOOSE i \in ReturnedResponse(last.trace) : TRUE].data.val

\* C33: when the callback returns a Response, the first message sent is an
\* HttpResponseStart whose status is the Response's status code, a
\* middleware's short-circuit Response included, and whose headers are the
\* one header Content-Type, with the Response's content type when it has one
\* and "application/json" otherwise.
C33_StartCarriesStatusAndContentType ==
    (IsAsgiCall("http") /\ ReturnedResponse(last.trace) # {}) =>
        LET start == SendSeq(last.trace)[1].data.msg
        IN  /\ Len(SendSeq(last.trace)) >= 1
            /\ start.type = "http.response.start"
            /\ start.status = ReturnedByCallback.status_code
            /\ Len(start.headers) = 1
            /\ start.headers[1][1] = "Content-Type"
            /\ start.headers[1][2] =
                   IF IsSome(ReturnedByCallback.content_type)
                   THEN Unwrap(ReturnedByCallback.content_type)
                   ELSE "application/json"
            /\ (MwEvents(last.trace) # {}
                /\ \E i \in MwEvents(last.trace) : last.trace[i].data.out = "some")
                   => (start.status = 401 /\ HandlerEvents(last.trace) = {})

\* A response with a content type of its own has been announced with it.
C33_Witness ==
    /\ IsAsgiCall("http")
    /\ ReturnedResponse(last.trace) # {}
    /\ ReturnedByCallback.content_type = Some("text/plain")
    /\ SendSeq(last.trace)[1].data.msg.status = 201
    /\ last.result = Ok(Unit)

----------------------------------------------------------------------------
(* Event deliveries through the installed callback: subscriptions made on  *)
(* the core, one middleware, the external callback or the handlers map.    *)

DeliveryBodies == {EmptyBytes, Text(EmptyObject, TRUE)}

NextDelivery ==
    \/ next_route_id < MaxIds /\ SubscribeEvent("OrderCreated")
    \/ /\ middlewares = <<>>
       /\ InstalledMiddlewares = <<>>
       /\ AppAddMiddleware("auth")
    \/ ~callback_installed /\ AppSetExternalCallback("py")
    \/ AppInstallCallback
    \/ \E b \in DeliveryBodies : PublishEvent("OrderCreated", b)

SpecDelivery == Init /\ [][NextDelivery]_vars

\* The events of one delivery: from its "call" to its "ret".
ReturnOf(trace, c) == CHOOSE j \in RetEvents(trace) :
                          j > c /\ \A k \in RetEvents(trace) : k > c => j <= k
Inside(trace, c) == {i \in 1..Len(trace) : c < i /\ i < ReturnOf(trace, c)}
ShortCircuited(trace, c) ==
    \E i \in Inside(trace, c) : trace[i].ev = "mw" /\ trace[i].data.out = "some"

IsClosureDelivery ==
    /\ last.op = "publish_event"
    /\ IsSome(callback)
    /\ Unwrap(callback).kind # "fn"

\* C34: publish_event invokes the installed callback once per delivery, with
\* method "EVENT" and the empty path; inside each delivery the middlewares
\* are evaluated in order up to the first that answers; when one answers,
\* neither a handler nor the external callback is invoked in that delivery,
\* the delivery returns Ok and the next subscriber is delivered to; when
\* every delivery is short-circuited every subscriber has been delivered to
\* and publish_event returns Ok.
C34_ShortCircuitedDeliveryCountsAsDelivered ==
    IsClosureDelivery =>
        LET t == last.trace
            subs == Subscribers(last.args.event_type_id)
            mws == Unwrap(callback).middlewares
        IN  /\ Cardinality(CallEvents(t)) = Cardinality(RetEvents(t))
            /\ Cardinality(CallEvents(t)) <= Len(subs)
            /\ \A c \in CallEvents(t) :
                 /\ t[c].method = EVENT
                 /\ t[c].path = <<>>
                 /\ LET seg == Inside(t, c)
                        ms == {i \in seg : t[i].ev = "mw"}
                        hs == {i \in seg : t[i].ev \in {"handler", "ext"}}
                    IN  /\ \A i \in ms : t[i].who = mws[t[i].id]
                        /\ \A i \in ms, j \in ms : i < j => t[i].id < t[j].id
                        /\ IF ShortCircuited(t, c)
                           THEN /\ hs = {}
                                /\ t[ReturnOf(t, c)].data.ok
                                /\ t[ReturnOf(t, c)].data.val.status_code = 401
                           ELSE /\ Cardinality(ms) = Len(mws)
                                /\ Precede(ms, hs)
            /\ (\A c \in CallEvents(t) : ShortCircuited(t, c)) =>
                   /\ Cardinality(CallEvents(t)) = Len(subs)
                   /\ last.result = Ok(Unit)
            /\ last.result.ok <=>
                   /\ Cardinality(CallEvents(t)) = Len(subs)
                   /\ \A r \in RetEvents(t) : t[r].data.ok

\* Two subscribers: the middleware answers on the first delivery, lets the
\* second through to the external callback, and publish_event returns Ok.
C34_Witness ==
    /\ IsClosureDelivery
    /\ Cardinality(CallEvents(last.trace)) = 2
    /\ ShortCircuited(last.trace, 1)
    /\ ExtEvents(last.trace) # {}
    /\ last.result = Ok(Unit)

----------------------------------------------------------------------------
(* A WebSocket connection whose application is UrichAsgi: the call sends   *)
(* one WsClose through the send driver and returns, without ever awaiting  *)
(* its receive endpoint.                                                   *)

\* The message of an AsgiSendMessage as the pump's match sees it.
OutboundOf(msg) == IF msg.type = "websocket.close" THEN "close" ELSE "other"

\* What UrichAsgi::call sends for a WebSocket scope.
UrichWsMessages ==
    SentMessages(WebSocketCall(WsScope(PlainPath), [k \in 1..MaxSends |-> "ok"]).trace)

\* send.send(WsClose { code: Some(1008) }).await
UrichSendsClose(c) ==
    LET k == ws[c]
    IN  /\ k.app = "running"
        /\ IF k.pc = "done"
           THEN SetConn(c, [k EXCEPT !.app = "sent", !.got = "SendErr"])
           ELSE /\ ~ChannelFull(k.txq)
                /\ SetConn(c, [k EXCEPT !.app = "sent",
                                        !.txq = Append(@, OutboundOf(UrichWsMessages[1]))])

\* The call returns (Ok, or the error of the send): both drivers are dropped.
UrichReturns(c) ==
    /\ ws[c].app = "sent"
    /\ SetConn(c, [ws[c] EXCEPT !.app = "returned", !.rxq = <<>>])

UrichFrames == {"text", "close", "ping", "error"}

NextWsUrich ==
    \/ Upgrade(1)
    \/ \E f \in UrichFrames : FrameArrives(1, f)
    \/ PeerCloses(1)
    \/ StreamNext(1)
    \/ TxRecvSend(1)
    \/ RxSendRecv(1)
    \/ StreamSend(1)
    \/ UrichSendsClose(1)
    \/ UrichReturns(1)

SpecWsUrich == Init /\ [][NextWsUrich]_vars

\* Both tasks are spawned tasks that the runtime polls whenever they can go
\* on, and select! picks among the ready branches of the pump at random.
SpecWsUrichFair ==
    /\ SpecWsUrich
    /\ WF_vars(UrichSendsClose(1))
    /\ WF_vars(UrichReturns(1))
    /\ WF_vars(TxRecvSend(1))
    /\ WF_vars(StreamSend(1))
    /\ SF_vars(StreamNext(1))
    /\ SF_vars(RxSendRecv(1))

AppReturned(c) == ws[c].app = "returned"

\* One of the two tasks can take a step.
SomeTaskCanGoOn ==
    \/ ENABLED UrichSendsClose(1)
    \/ ENABLED UrichReturns(1)
    \/ ENABLED TxRecvSend(1)
    \/ ENABLED StreamSend(1)
    \/ ENABLED RxSendRecv(1)
    \/ ENABLED StreamNext(1)

\* C35: on a WebSocket connection served by UrichAsgi, whatever frames
\* arrive and whenever the socket is closed, the application call returns,
\* the pump loop exits, and until both have happened one of the two tasks
\* can take a step without the peer doing anything.
C35_UrichWebSocketTerminates ==
    /\ Upgraded(1) ~> AppReturned(1)
    /\ Upgraded(1) ~> PumpDone(1)
    /\ []((Upgraded(1) /\ ~(AppReturned(1) /\ PumpDone(1))) => SomeTaskCanGoOn)

\* Both tasks are over although the peer has not closed the socket and a
\* frame it sent is still unread.
C35_Witness ==
    /\ AppReturned(1)
    /\ PumpDone(1)
    /\ ws[1].sock = "open"
    /\ ws[1].inq # <<>>

-----------------------------------------------------------------------------
(* What the pump carries, and in which order (http.rs 129-153, 163-212):   *)
(* one observed connection, every kind of frame and of message.            *)

\* Frames the peer sends on the observed connection.
MaxFrames == 3

\* Messages the application sends on the observed connection.
MaxOutbound == 2

ObservedConnection == [NewConnection EXCEPT !.log.on = TRUE]

\* asgi_websocket_upgrade, the spawned task, with an observer attached.
UpgradeObserved(c) ==
    /\ ws[c].pc = "none"
    /\ SetConn(c, ObservedConnection)

\* The frames the peer has sent so far: those read and those still unread.
Arrived(c) ==
    Len(SelectSeq(ws[c].log.read, LAMBDA f : f # "none")) + Len(ws[c].inq)

OrderFrames == {"text", "close", "ping"}
OrderOutbound == {"send_text", "close", "other"}

NextWsOrder ==
    \/ UpgradeObserved(1)
    \/ \E f \in OrderFrames : Arrived(1) < MaxFrames /\ FrameArrives(1, f)
    \/ PeerCloses(1)
    \/ StreamNext(1)
    \/ TxRecvSend(1)
    \/ RxSendRecv(1)
    \/ StreamSend(1)
    \/ AppReceives(1)
    \/ \E m \in OrderOutbound : Len(ws[1].log.snt) < MaxOutbound /\ AppSends(1, m)
    \/ AppReturns(1)

SpecWsOrder == Init /\ [][NextWsOrder]_vars

\* s is an initial segment of t.
IsPrefix(s, t) == Len(s) <= Len(t) /\ SubSeq(t, 1, Len(s)) = s

\* What the application is to be given for the frames read, in their order:
\* a text, binary or close frame as itself, a read error as an error, the end
\* of the stream as the end marker, and nothing for a ping, pong or raw frame.
RECURSIVE ItemsOf(_)
ItemsOf(read) ==
    IF read = <<>> THEN <<>>
    ELSE LET f == Head(read)
             item == IF f \in {"text", "binary", "close"} THEN <<f>>
                     ELSE IF f = "none" THEN <<"eos">>
                     ELSE IF f \in {"ping", "pong", "frame"} THEN <<>>
                     ELSE <<"err">>
         IN  item \o ItemsOf(Tail(read))

\* The WsSend (with a text or with bytes) and WsClose messages among msgs.
Writable(msgs) ==
    SelectSeq(msgs, LAMBDA m : m \in {"send_text", "send_bytes", "close"})

\* The item the pump holds between reading a frame and forwarding it, and the
\* message it holds between taking it from the channel and writing it.
InHandIn(c) == IF ws[c].pc = "forward" THEN <<ws[c].pending>> ELSE <<>>

InHandOut(c) == IF ws[c].pc = "write" THEN <<ws[c].pending>> ELSE <<>>

PumpRuns(c) == ws[c].pc \in {"select", "forward", "write"}

\* As the sentence is written: every text, binary and close frame read has
\* been handed to the receive endpoint or is in the pump's hand, whatever the
\* application has done.
C36_EveryFrameReadIsDelivered ==
    ws[1].log.on => ws[1].log.fwd \o InHandIn(1) = ItemsOf(ws[1].log.read)

\* C36: what the inbound channel accepted is, in order, what the frames read
\* call for, each once, short of the one item in hand; the application is
\* given the accepted items in that order; the only frame read and not handed
\* over is the one the pump held when the application's call had returned, and
\* the loop ends there. What is written to the socket is, in order and each
\* at most once, the WsSend and WsClose messages the application sent; while
\* the loop runs none of them is lost. No ping or pong reaches the
\* application and no other message reaches the socket.
C36_PumpKeepsOrderAndNeverDuplicates ==
    LET k == ws[1]
        l == k.log
        due == ItemsOf(l.read)
    IN  l.on =>
          /\ IsPrefix(l.fwd \o InHandIn(1), due)
          /\ (PumpRuns(1) \/ k.app = "running") => l.fwd \o InHandIn(1) = due
          /\ Len(due) - Len(l.fwd) <= 1
          /\ IsPrefix(l.dlv, l.fwd)
          /\ k.app = "running" => l.dlv \o k.rxq = l.fwd
          /\ IsPrefix(l.wrt \o InHandOut(1), Writable(l.snt))
          /\ PumpRuns(1) => l.wrt \o InHandOut(1) \o Writable(k.txq) = Writable(l.snt)
          /\ \A i \in 1..Len(l.dlv) : l.dlv[i] \in {"text", "binary", "close", "err", "eos"}
          /\ \A i \in 1..Len(l.wrt) : l.wrt[i] \in {"send_text", "send_bytes", "close"}

\* Three frames were read, a ping among them and a close frame before a text
\* frame; the application was given the two data frames and the pump wrote a
\* message after skipping one that is not a WebSocket message.
C36_Witness ==
    LET l == ws[1].log
    IN  /\ l.on
        /\ l.read = <<"close", "ping", "text">>
        /\ l.dlv = <<"close", "text">>
        /\ l.snt = <<"other", "send_text">>
        /\ l.wrt = <<"send_text">>

-----------------------------------------------------------------------------
(* Registering one (method, path) pair again (router.rs 20-31, lib.rs      *)
(* 93-115), over the registrations and requests of SpecRouter.             *)

\* The pair a registration stands for: upper-cased method, slash-trimmed path.
KeyOf(id) == RouteKey(ToUppercase(routes[id].method), TrimSlashes(routes[id].path))

\* The registrations of the pair a request asks for, and the latest of them.
RegistrationsOf(ctx) == {id \in DOMAIN routes : KeyOf(id) = RequestKey(ctx)}

LatestOf(ids) == CHOOSE id \in ids : \A other \in ids : other <= id

\* C37 (as claimed): once a (method, path) pair, compared after upper-casing
\* the method and trimming slashes, has been registered more than once,
\* match_route returns for it the id of the latest registration and never the
\* id of an earlier one.
C37_LatestRegistrationWins ==
    \A ctx \in RouterRequests :
        Cardinality(RegistrationsOf(ctx)) > 1 =>
            MatchRoute(router, ctx.method, ctx.path) = Some(LatestOf(RegistrationsOf(ctx)))

-----------------------------------------------------------------------------
(* publish_event without a callback and without subscribers (lib.rs        *)
(* 172-193), over the subscriptions and publications of SpecEvents.        *)

\* What the last publish_event returned, by the callback slot and by the
\* subscribers of the published type.
PublishAnswersBySlot ==
    last.op = "publish_event" =>
        /\ ~IsSome(callback) =>
               /\ last.result = Err("Validation", "no callback set")
               /\ last.trace = <<>>
        /\ (IsSome(callback) /\ Subscribers(last.args.event_type_id) = <<>>) =>
               /\ last.result = Ok(Unit)
               /\ last.trace = <<>>

\* C38: publish_event fails with Validation("no callback set") whenever no
\* callback is installed, subscribers or not; with a callback installed and no
\* subscriber of the published type it returns Ok and invokes nothing; and no
\* publish_event changes the subscription table or any other registry state.
C38_PublishNeedsCallbackAndChangesNothing ==
    /\ []PublishAnswersBySlot
    /\ [][last'.op = "publish_event" => UNCHANGED <<core_vars, facade_vars>>]_vars

\* An event type nobody subscribed to was published while no callback was
\* installed and the other type had a subscriber.
C38_Witness ==
    /\ last.op = "publish_event"
    /\ ~IsSome(callback)
    /\ Subscribers(last.args.event_type_id) = <<>>
    /\ event_subscriptions # EmptyMap

-----------------------------------------------------------------------------
(* add_rpc_route called again (lib.rs 142-147, 211-243), over the          *)
(* registrations and requests of SpecRpc.                                  *)

\* The routes add_rpc_route registered (it tags them "RPC"), and those among
\* them that a later add_rpc_route has replaced as the designated route.
RpcRegistered ==
    {id \in DOMAIN routes : routes[id].openapi_tag = Some(<<"R", "P", "C">>)}

FormerRpcRoutes == {id \in RpcRegistered : rpc_route_id # Some(id)}

\* The route the request of the last operation matched.
MatchedRoute == MatchRoute(router, last.args.method, last.args.path)

\* C39: the designated RPC route is the one of the latest add_rpc_route and no
\* other; a request that matches a route an earlier add_rpc_route registered
\* under another path is resolved as a plain route, to that route's own id
\* and to the body as it came, and the callback is called with these; only a
\* request that matches the designated route is resolved to the id of an RPC
\* method.
C39_OnlyTheLatestRpcRouteDispatches ==
    /\ last.op = "add_rpc_route" =>
           /\ IsSome(rpc_route_id)
           /\ MatchRoute(router, POST, last.args.path) = rpc_route_id
    /\ Cardinality({id \in DOMAIN routes : IsRpcRoute(id)}) <= 1
    /\ (IsRequestOp /\ IsSome(MatchedRoute) /\ Unwrap(MatchedRoute) \in FormerRpcRoutes) =>
           LET id == Unwrap(MatchedRoute)
           IN  /\ last.op = "match_route_and_validate" =>
                      last.result = Ok([handler_id |-> id, payload |-> last.args.body])
               /\ (last.op = "handle_request" /\ IsSome(callback)) =>
                      /\ CallEvents(last.trace) = {1}
                      /\ last.trace[1].id = id
                      /\ last.trace[1].data = last.args.body
    /\ (last.op = "match_route_and_validate" /\ last.result.ok
          /\ \E n \in DOMAIN rpc_methods : rpc_methods[n].id = last.result.val.handler_id) =>
           MatchedRoute = rpc_route_id

\* After add_rpc_route for two paths, a request to the first path whose body
\* carries a "method" string was resolved to the first route's own id and to
\* the body itself.
C39_Witness ==
    /\ last.op = "match_route_and_validate"
    /\ IsSome(MatchedRoute)
    /\ Unwrap(MatchedRoute) \in FormerRpcRoutes
    /\ IsSome(rpc_route_id)
    /\ routes[Unwrap(rpc_route_id)].path # routes[Unwrap(MatchedRoute)].path
    /\ NamesMethod
    /\ last.result = Ok([handler_id |-> Unwrap(MatchedRoute), payload |-> last.args.body])

====
